---- MODULE Spec2Model ----
(***************************************************************************)
(* Model of the LM Studio tool gateway: the resilience primitives          *)
(* (withRetry, CircuitBreaker), the upstream stream normalizer             *)
(* (streamLMStudio, parseMultipleJSONObjects) and the tool-call            *)
(* orchestration loop (chatWithTools), with the manual POST /call route.   *)
(*                                                                         *)
(* Time is counted in milliseconds and advances in steps of TickMs.        *)
(***************************************************************************)
EXTENDS Integers, Sequences, FiniteSets, TLC

(* ------------------------------ bounds -------------------------------- *)

\* Number of requests that may call the shared breaker concurrently.
NumProcs == 2

\* The clock stops after MaxTicks steps of TickMs.
MaxTicks == 3

\* The breaker's threshold is drawn from 1..MaxThreshold.
MaxThreshold == 3

(* ------------------------- program constants -------------------------- *)

\* new CircuitBreaker(3, 60000, 30000): the cooldown in ms.
Timeout == 60000

\* new CircuitBreaker(3, 60000, 30000): the threshold of lmStudioCircuitBreaker.
LMThreshold == 3

\* config.maxRetries (default) used by lmStudioRetryOptions.
ConfigMaxRetries == 3

\* Clock granularity: half a cooldown, so that "exactly timeout" and
\* "more than timeout" are both reached.
TickMs == Timeout \div 2

Procs == 1..NumProcs

lmStudioRetryOptions ==
  [maxRetries |-> ConfigMaxRetries, baseDelay |-> 1000,
   maxDelay |-> 10000, backoffMultiplier |-> 2]

(* ------------------------------ helpers ------------------------------- *)

Min(a, b) == IF a <= b THEN a ELSE b

RECURSIVE Pow(_, _)
Pow(b, e) == IF e = 0 THEN 1 ELSE b * Pow(b, e - 1)

\* Math.ceil(x / d) for d > 0 (x may be negative).
CeilDiv(x, d) == IF x >= 0 THEN (x + d - 1) \div d ELSE -((-x) \div d)

(* ------------------------------ withRetry ----------------------------- *)

\* attempt > options.maxRetries: the failed attempt was the last one.
RetriesExhaustedMutGe(attempt, options) == attempt >= options.maxRetries
RetriesExhausted(attempt, options) == attempt > options.maxRetries

\* The backoff delay computed after failed attempt number `attempt`.
RetryDelayMutPowAttempt(attempt, options) ==
  Min(options.baseDelay * Pow(options.backoffMultiplier, attempt),
      options.maxDelay)
RetryDelay(attempt, options) ==
  Min(options.baseDelay * Pow(options.backoffMultiplier, attempt - 1),
      options.maxDelay)

\* new RetryError(msg, lastError, attempt - 1, options.maxRetries)
RetryError(attempt, options) ==
  [kind |-> "RetryError", a |-> attempt - 1, b |-> options.maxRetries]

(* ---------------------------- CircuitBreaker -------------------------- *)

VARIABLES
  state,            \* "CLOSED" | "OPEN" | "HALF_OPEN"
  failures,         \* CircuitBreaker.failures
  lastFailureTime,  \* CircuitBreaker.lastFailureTime
  threshold,        \* CircuitBreaker.threshold (constructor argument)
  now,              \* Date.now()
  cpc,              \* per request: position of its execute() call
  attempt,          \* per request: withRetry's attempt counter
  res,              \* per request: outcome of the finished execute() call
  nOps,             \* per request: operation invocations of the current call
  waits,            \* per request: backoff delays waited in the current call
  openedAt,         \* history: time of the last transition into OPEN, -1 if none
  consec,           \* history: operation failures since the last success
  lastEnd           \* history: the last outcome applied to the breaker

breakerVars == <<state, failures, lastFailureTime, threshold, now>>
callVars == <<cpc, attempt, res, nOps, waits>>
histVars == <<openedAt, consec, lastEnd>>

VARIABLES
  pc,               \* position of the chatWithTools run
  maxIterations,    \* its argument
  messages,         \* the caller's array
  currentMessages,  \* the loop's conversation
  iterations,       \* the loop counter
  toolCallDetected, \* the flag of the current turn
  events,           \* the events the run has yielded so far
  frames,           \* the frames of the response body not read yet
  contentBuffer,    \* streamLMStudio's content buffer
  pending,          \* events streamLMStudio yields next, before reading on
  curAction,        \* the action being executed
  toolAttempt,      \* withRetry's attempt counter of the tool execution
  toolWaits,        \* backoff delays waited in the tool execution
  callResp,         \* the last response of POST /call
  reply,            \* history: the whole reply of the current turn
  handled,          \* history: the actions the loop handled in this turn
  turns,            \* history: streamLMStudio calls of the run
  actionTurns,      \* history: turns in which the loop received an action
  toolExecs,        \* history: tool executions started by the run
  toolDone,         \* history: tool executions finished (ok or failed)
  runCalls,         \* history: invocations of run() by the run
  lastRun           \* history: the last invocation handed to a run()

VARIABLES
  readerLock,       \* history: "none" | "held" | "released", the body reader's lock
  failedAt,         \* history: the run's counters when its upstream call failed
  rpc,              \* position of a withRetry call made on its own
  rOptions,         \* its options
  rAttempt,         \* its attempt counter
  rOps,             \* history: the outcome of each invocation of its operation
  rWaits,           \* history: the delays it waited, each with the invocations before it
  rLastError,       \* its lastError
  rResult,          \* what it returned or threw
  ppc,              \* position of a parseMultipleJSONObjects call made on its own
  pText,            \* its argument
  pResult,          \* its return value
  wsOpen,           \* ws.readyState === 1 for the chat request's WebSocket
  sent,             \* number of the run's events the websocket handler has processed
  closedAt          \* history: the run's counters when the client disconnected

VARIABLES
  tools,            \* server.ts `tools`: the loaded tools, in insertion order
  toLoad,           \* the tool modules loadTools has not imported yet
  spc,              \* position of startServer
  mcpTools,         \* MCPServer.tools
  mcpResources,     \* MCPServer.resources
  connections,      \* MCPServer.connections: id -> connection
  mcpResp,          \* the last MCPServer call or /mcp request and its outcome
  observed,         \* history: the catalog the last toolPrompt() call listed
  initialized,      \* history: ids initialized on request and not closed since
  lastRegistered,   \* history: the argument of the last registerTools call
  lastResources     \* history: the argument of the last registerResources call

VARIABLES
  sbpc,             \* position of a resolveInSandbox call made on its own
  sbPath,           \* its argument p
  sbResult          \* what it returned or threw

VARIABLES
  heap,             \* the message arrays: the caller's and each run's copy
  runPc,            \* per concurrent chatWithTools run: its position
  runArr,           \* per run: the array its currentMessages refers to
  runIter,          \* per run: iterations
  runSent           \* history, per run: the conversation it sent upstream last

VARIABLES
  rateLimits,       \* middleware `rateLimits`: ip -> { count, reset }
  rlResp,           \* the outcome of the last request the middleware handled
  admitted,         \* history, per ip: requests passed on since its entry was created
  windowEnd         \* history, per ip: the reset time of the entry being counted

VARIABLES
  rpcReq,           \* the body of the last /mcp request: method and id
  rpcResp           \* the JSON-RPC response it was answered with

VARIABLES
  npc,              \* position of a POST /chat request with stream = false
  nContent,         \* choices[0].message.content of the upstream reply
  nQueue,           \* jsonObjects the for loop has not reached yet
  nCur,             \* the tool call being executed
  nAttempt,         \* withRetry's attempt counter of that execution
  nResults,         \* `results`, each entry with the call it reports
  nExecutes,        \* history: lmStudioCircuitBreaker.execute() calls of the request
  nResp             \* the HTTP status answered, 0 before

VARIABLES
  rdpc,             \* position of a streamLMStudio read loop taken on its own
  rdBytes,          \* the upstream body
  rdPos,            \* how much of it reader.read() has returned
  rdDecoder,        \* the TextDecoder holds the first byte of a character
  rdBuffer,         \* `buffer`: the incomplete line kept between reads
  rdContent,        \* `contentBuffer`
  rdEvents          \* the events yielded so far

rateVars == <<rateLimits, rlResp, admitted, windowEnd>>
rpcVars == <<rpcReq, rpcResp>>
plainVars ==
  <<npc, nContent, nQueue, nCur, nAttempt, nResults, nExecutes, nResp>>
readVars ==
  <<rdpc, rdBytes, rdPos, rdDecoder, rdBuffer, rdContent, rdEvents>>
lateVars == <<rateVars, rpcVars, plainVars, readVars>>
runsVars == <<heap, runPc, runArr, runIter, runSent>>
sandboxVars == <<sbpc, sbPath, sbResult>>
toolVars == <<tools, toLoad, spc>>
mcpVars == <<mcpTools, mcpResources, connections, mcpResp>>
mcpHist == <<observed, initialized, lastRegistered, lastResources>>

retryVars == <<rpc, rOptions, rAttempt, rOps, rWaits, rLastError, rResult>>
parseVars == <<ppc, pText, pResult>>
wsVars == <<wsOpen, sent, closedAt>>
servedVars ==
  <<toolVars, mcpVars, mcpHist, sandboxVars, runsVars, lateVars>>

extVars ==
  <<retryVars, parseVars, wsVars, toolVars, mcpVars, mcpHist, sandboxVars,
    runsVars, lateVars>>

chatVars ==
  <<pc, maxIterations, messages, currentMessages, iterations, toolCallDetected,
    events, frames, contentBuffer, pending, curAction, toolAttempt, toolWaits>>
chatHist ==
  <<reply, handled, turns, actionTurns, toolExecs, toolDone, runCalls>>
chatAll ==
  <<chatVars, chatHist, callResp, lastRun, readerLock, failedAt>>

vars ==
  <<state, failures, lastFailureTime, threshold, now,
    cpc, attempt, res, nOps, waits, openedAt, consec, lastEnd,
    pc, maxIterations, messages, currentMessages, iterations, toolCallDetected,
    events, frames, contentBuffer, pending, curAction, toolAttempt, toolWaits,
    callResp, reply, handled, turns, actionTurns, toolExecs, toolDone,
    runCalls, lastRun, readerLock, failedAt,
    rpc, rOptions, rAttempt, rOps, rWaits, rLastError, rResult,
    ppc, pText, pResult, wsOpen, sent, closedAt,
    tools, toLoad, spc, mcpTools, mcpResources, connections, mcpResp,
    observed, initialized, lastRegistered, lastResources,
    sbpc, sbPath, sbResult, heap, runPc, runArr, runIter, runSent,
    rateLimits, rlResp, admitted, windowEnd, rpcReq, rpcResp,
    npc, nContent, nQueue, nCur, nAttempt, nResults, nExecutes, nResp,
    rdpc, rdBytes, rdPos, rdDecoder, rdBuffer, rdContent, rdEvents>>

NoResult == [kind |-> "none", a |-> 0, b |-> 0]
OkResult == [kind |-> "ok", a |-> 0, b |-> 0]

\* Date.now() - this.lastFailureTime > this.timeout
CooldownElapsedMutGe(t, lft) == t - lft >= Timeout
CooldownElapsed(t, lft) == t - lft > Timeout

\* Math.ceil((this.timeout - (Date.now() - this.lastFailureTime)) / 1000)
RemainingSeconds(t, lft) == CeilDiv(Timeout - (t - lft), 1000)

\* new Error(`Circuit breaker is OPEN. ... Next attempt in ${n} seconds`)
CircuitOpenError(t, lft) ==
  [kind |-> "CircuitOpen", a |-> RemainingSeconds(t, lft), b |-> 0]

\* onSuccess(): the breaker's fields after a successful operation.
onSuccessMutKeepCount(b) == [b EXCEPT !.state = "CLOSED"]
onSuccess(b) == [b EXCEPT !.failures = 0, !.state = "CLOSED"]

\* onFailure(): the breaker's fields after a failed operation at time t.
onFailureMutGt(b, t, th) ==
  [state |-> IF b.failures + 1 > th THEN "OPEN" ELSE b.state,
   failures |-> b.failures + 1,
   lastFailureTime |-> t]
onFailureMutKeepTime(b, t, th) ==
  [state |-> IF b.failures + 1 >= th THEN "OPEN" ELSE b.state,
   failures |-> b.failures + 1,
   lastFailureTime |-> b.lastFailureTime]
onFailureMutSaturate(b, t, th) ==
  [state |-> IF b.failures + 1 >= th THEN "OPEN" ELSE b.state,
   failures |-> IF b.failures >= th THEN b.failures ELSE b.failures + 1,
   lastFailureTime |-> t]
onFailure(b, t, th) ==
  [state |-> IF b.failures + 1 >= th THEN "OPEN" ELSE b.state,
   failures |-> b.failures + 1,
   lastFailureTime |-> t]

Breaker ==
  [state |-> state, failures |-> failures, lastFailureTime |-> lastFailureTime]

\* execute(), up to the first await: the OPEN check, then either the
\* rejection or the first invocation of the operation (withRetry's attempt 1,
\* whose safeFetch is then in flight).
ExecuteEntry(p) ==
  /\ cpc[p] = "idle"
  /\ IF state = "OPEN" /\ ~CooldownElapsed(now, lastFailureTime)
       THEN /\ cpc' = [cpc EXCEPT ![p] = "returned"]
            /\ res' = [res EXCEPT ![p] = CircuitOpenError(now, lastFailureTime)]
            /\ attempt' = [attempt EXCEPT ![p] = 0]
            /\ nOps' = [nOps EXCEPT ![p] = 0]
            /\ state' = state
       ELSE /\ cpc' = [cpc EXCEPT ![p] = "fetch"]
            /\ res' = [res EXCEPT ![p] = NoResult]
            /\ attempt' = [attempt EXCEPT ![p] = 1]
            /\ nOps' = [nOps EXCEPT ![p] = 1]
            /\ state' = IF state = "OPEN" THEN "HALF_OPEN" ELSE state
  /\ waits' = [waits EXCEPT ![p] = <<>>]
  /\ UNCHANGED <<failures, lastFailureTime, threshold, now>>
  /\ UNCHANGED histVars

\* The pending safeFetch resolves: withRetry returns, execute() runs
\* onSuccess() and returns the response.
FetchOk(p) ==
  /\ cpc[p] = "fetch"
  /\ LET nb == onSuccess(Breaker) IN
       /\ state' = nb.state
       /\ failures' = nb.failures
       /\ lastFailureTime' = nb.lastFailureTime
  /\ cpc' = [cpc EXCEPT ![p] = "returned"]
  /\ res' = [res EXCEPT ![p] = OkResult]
  /\ consec' = 0
  /\ lastEnd' = [outcome |-> "success", pre |-> state]
  /\ UNCHANGED <<threshold, now, attempt, nOps, waits, openedAt>>
  /\ UNCHANGED chatAll
  /\ UNCHANGED extVars

\* The pending safeFetch rejects and retries remain: withRetry computes the
\* delay and waits.
FetchFailRetryMutCounts(p) ==
  /\ cpc[p] = "fetch"
  /\ ~RetriesExhausted(attempt[p], lmStudioRetryOptions)
  /\ cpc' = [cpc EXCEPT ![p] = "backoff"]
  /\ waits' = [waits EXCEPT
                 ![p] = Append(@, RetryDelay(attempt[p], lmStudioRetryOptions))]
  /\ LET nb == onFailure(Breaker, now, threshold) IN
       /\ state' = nb.state
       /\ failures' = nb.failures
       /\ lastFailureTime' = nb.lastFailureTime
  /\ UNCHANGED <<threshold, now>>
  /\ UNCHANGED <<attempt, res, nOps>>
  /\ UNCHANGED histVars
  /\ UNCHANGED chatAll
  /\ UNCHANGED extVars
FetchFailRetry(p) ==
  /\ cpc[p] = "fetch"
  /\ ~RetriesExhausted(attempt[p], lmStudioRetryOptions)
  /\ cpc' = [cpc EXCEPT ![p] = "backoff"]
  /\ waits' = [waits EXCEPT
                 ![p] = Append(@, RetryDelay(attempt[p], lmStudioRetryOptions))]
  /\ UNCHANGED <<attempt, res, nOps>>
  /\ UNCHANGED breakerVars
  /\ UNCHANGED histVars
  /\ UNCHANGED chatAll
  /\ UNCHANGED extVars

\* The backoff timer fires: the next attempt invokes the operation again.
BackoffDone(p) ==
  /\ cpc[p] = "backoff"
  /\ cpc' = [cpc EXCEPT ![p] = "fetch"]
  /\ attempt' = [attempt EXCEPT ![p] = @ + 1]
  /\ nOps' = [nOps EXCEPT ![p] = @ + 1]
  /\ UNCHANGED <<res, waits>>
  /\ UNCHANGED breakerVars
  /\ UNCHANGED histVars
  /\ UNCHANGED chatAll
  /\ UNCHANGED extVars

\* The pending safeFetch rejects on the last attempt: withRetry throws
\* RetryError, execute() runs onFailure() and rethrows.
FetchFailFinal(p) ==
  /\ cpc[p] = "fetch"
  /\ RetriesExhausted(attempt[p], lmStudioRetryOptions)
  /\ LET nb == onFailure(Breaker, now, threshold) IN
       /\ state' = nb.state
       /\ failures' = nb.failures
       /\ lastFailureTime' = nb.lastFailureTime
       /\ openedAt' = IF nb.state = "OPEN" /\ state # "OPEN" THEN now ELSE openedAt
  /\ cpc' = [cpc EXCEPT ![p] = "returned"]
  /\ res' = [res EXCEPT ![p] = RetryError(attempt[p], lmStudioRetryOptions)]
  /\ consec' = consec + 1
  /\ lastEnd' = [outcome |-> "failure", pre |-> state]
  /\ UNCHANGED <<threshold, now, attempt, nOps, waits>>
  /\ UNCHANGED chatAll
  /\ UNCHANGED extVars

\* The passage of time.
Tick ==
  /\ now < MaxTicks * TickMs
  /\ now' = now + TickMs
  /\ UNCHANGED <<state, failures, lastFailureTime, threshold>>
  /\ UNCHANGED callVars
  /\ UNCHANGED histVars
  /\ UNCHANGED chatAll
  /\ UNCHANGED extVars

(* ------------------- text, tool calls, the tool catalog --------------- *)

\* Model output is a sequence of tokens: a brace, a run of narration, white
\* space, the `"action":"<a>","params":` part of a tool call, the inside of a
\* params object, or any other JSON member list.
LB == [k |-> "lb"]
RB == [k |-> "rb"]
TXT == [k |-> "txt"]
WS == [k |-> "ws"]
ACT(a) == [k |-> "act", action |-> a]
PAR(p) == [k |-> "par", params |-> p]

\* The text of the tool call {"action": a, "params": {p}}.
ObjText(a, p) == <<LB, ACT(a), LB, PAR(p), RB, RB>>

\* Params are sets of <<field, value>>, a value being given by its primitive
\* type, or "escape": a string naming a path outside the sandbox root.
PGood == {<<"path", "string">>}
PEmpty == {}
PBadType == {<<"path", "number">>}
PEscape == {<<"path", "escape">>}

\* typeof value
TypeOf(v) == IF v = "escape" THEN "string" ELSE v

\* The catalog `tools`: name -> schema (properties, required).
ToolNames == {"listFiles", "createDirectory"}

\* `tools` is an object literal ({}), so tools[action] also finds the members
\* every object inherits from Object.prototype (toString, constructor, ...):
\* a function that is truthy and has no run member.
InheritedNames == {"toString"}

\* typeof tools[a].run === "function"
HasRun(a) == a \in ToolNames

ToolSchema(t) ==
  IF t = "listFiles"
    THEN [properties |-> {<<"path", "string">>}, required |-> {"path"}]
    ELSE [properties |-> {<<"path", "string">>, <<"recursive", "boolean">>},
          required |-> {"path"}]

\* run() of listFiles catches every error and returns text; run() of
\* createDirectory rethrows.
RunMayThrow(t) == t = "createDirectory" \/ t \in InheritedNames

\* What run(params) of a tool that rethrows may throw: resolveInSandbox
\* throws 'Path escapes sandbox' for an escaping path and a TypeError for a
\* path that is no string; for a path inside the sandbox fs.mkdir may fail.
\* For an inherited member the call tool.run(params) itself throws a
\* TypeError (tool.run is not a function).
RunErrors(inv) ==
  IF inv.action \in InheritedNames THEN {"NotAFunction"}
  ELSE IF <<"path", "escape">> \in inv.params THEN {"SandboxViolation"}
  ELSE IF <<"path", "string">> \in inv.params THEN {"ToolError"}
  ELSE {"ParameterError"}

\* resolveInSandbox(params.path) throws before anything is done.
RunMustThrow(inv) ==
  RunMayThrow(inv.action) /\ RunErrors(inv) # {"ToolError"}

(* ------------------------------- sandbox ------------------------------ *)

\* A path is a sequence of segments, absolute or relative; a segment is a
\* sequence of pieces of text, so that one name can be the beginning of
\* another. The string of a path writes "/" before every segment.
Dot == <<".">>
DotDot == <<"..">>
NameSrv == <<"srv">>
NameSandbox == <<"sandbox">>
NameSibling == <<"sandbox", "-old">>
NameEtc == <<"etc">>

\* SANDBOX_ROOT: the absolute path /srv/sandbox.
SANDBOX_ROOT == <<NameSrv, NameSandbox>>

\* The normalisation of path.resolve: "." is dropped, ".." removes the
\* segment before it (none at the file system root).
RECURSIVE Normalize(_, _)
Normalize(segs, acc) ==
  IF segs = <<>> THEN acc
  ELSE IF Head(segs) = Dot THEN Normalize(Tail(segs), acc)
  ELSE IF Head(segs) = DotDot
    THEN Normalize(Tail(segs),
                   IF acc = <<>> THEN acc ELSE SubSeq(acc, 1, Len(acc) - 1))
  ELSE Normalize(Tail(segs), Append(acc, Head(segs)))

\* path.resolve(root, p): an absolute p replaces root.
PathResolve(root, p) ==
  Normalize(IF p.abs THEN p.segs ELSE root \o p.segs, <<>>)

\* The string of an absolute normalised path.
RECURSIVE PathString(_)
PathString(segs) ==
  IF segs = <<>> THEN <<>>
  ELSE <<"/">> \o Head(segs) \o PathString(Tail(segs))

\* String.prototype.startsWith
StartsWith(str, prefix) ==
  /\ Len(str) >= Len(prefix)
  /\ SubSeq(str, 1, Len(prefix)) = prefix

NoPath == [threw |-> FALSE, path |-> <<>>]

\* resolveInSandbox(p)
resolveInSandbox(p) ==
  LET target == PathResolve(SANDBOX_ROOT, p) IN
    IF ~StartsWith(PathString(target), PathString(SANDBOX_ROOT))
      THEN [threw |-> TRUE, path |-> <<>>]
      ELSE [threw |-> FALSE, path |-> target]

(* ------------------------- tool registry and MCP ---------------------- *)

Range(f) == {f[x] : x \in DOMAIN f}

\* A module of ./tools as loadTools stores it: { name, description, schema, run }.
Tool(n, d) == [name |-> n, description |-> d, schema |-> ToolSchema(n)]

\* The modules under ./tools in the order readdir lists them, and the
\* registry when loadTools has imported them all.
ToolFiles == <<"listFiles", "createDirectory">>
LoadedTools == [i \in DOMAIN ToolFiles |-> Tool(ToolFiles[i], "v1")]

\* Object.keys(tools)
ToolKeys(reg) == {reg[i].name : i \in DOMAIN reg}

(* ------------------------- schema validation -------------------------- *)

\* validateToolParameters(tool, params) of the MCP server: every required
\* field is present, and every supplied field the schema declares has the
\* declared primitive type.
validateToolParameters(schema, params) ==
  /\ \A f \in schema.required : \E kv \in params : kv[1] = f
  /\ \A kv \in params :
       \A prop \in schema.properties :
         prop[1] = kv[1] => prop[2] = TypeOf(kv[2])

\* tools[action]
ToolLookup(a) == a \in ToolKeys(tools) \cup InheritedNames

(* ------------------------------ MCPServer ----------------------------- *)

\* The MCPTool registerTools makes of a tool.
MCPTool(t) ==
  [name |-> t.name, description |-> t.description,
   inputSchema |-> [type |-> "object", properties |-> t.schema.properties,
                    required |-> t.schema.required]]

\* Object.values(existingTools).map(...)
Catalog(reg) == [i \in DOMAIN reg |-> MCPTool(reg[i])]

\* The connection object initializeConnection stores (its capabilities and
\* prompts are the same for every connection).
Connection(c) ==
  [id |-> c, tools |-> mcpTools, resources |-> mcpResources,
   isInitialized |-> TRUE]

\* toolCall.arguments: an object with the params p, or undefined when the
\* request carries none.
Args(p) == [given |-> TRUE, params |-> p]
NoArgs == [given |-> FALSE, params |-> {}]

\* this.validateToolParameters(tool, toolCall.arguments) returns: with no
\* arguments object `param in params` or Object.entries(params) throws.
ValidatesMutNoTypes(tool, args) ==
  /\ args.given
  /\ \A f \in tool.inputSchema.required : \E kv \in args.params : kv[1] = f
Validates(tool, args) ==
  /\ args.given
  /\ validateToolParameters(tool.inputSchema, args.params)

NoMcp ==
  [op |-> "none", conn |-> "", name |-> "", args |-> NoArgs, threw |-> "",
   ran |-> FALSE, isError |-> FALSE, text |-> "", list |-> <<>>,
   again |-> FALSE]

\* The value a handler returned.
Returned(op, c) == [NoMcp EXCEPT !.op = op, !.conn = c]

\* The error a handler threw.
Threw(op, c, msg) == [NoMcp EXCEPT !.op = op, !.conn = c, !.threw = msg]

\* connection.tools.find((t) => t.name === toolCall.name)
\* (the matches in order; find returns the first, or undefined for none)
FindTool(ts, name) == SelectSeq(ts, LAMBDA t : t.name = name)

\* handleToolCall(connectionId, toolCall, toolRunner), the runner resolving
\* (runnerOk) or rejecting when it is invoked.
handleToolCall(conns, c, name, args, runnerOk) ==
  IF c \notin DOMAIN conns
    THEN [Threw("tools/call", c, "Connection not found") EXCEPT
            !.name = name, !.args = args]
  ELSE LET found == FindTool(conns[c].tools, name)
           tool == Head(found) IN
    IF found = <<>>
      THEN [Threw("tools/call", c, "Tool not found") EXCEPT
              !.name = name, !.args = args]
    ELSE IF ~Validates(tool, args)
      THEN [Returned("tools/call", c) EXCEPT
              !.name = name, !.args = args, !.isError = TRUE,
              !.text = "Tool execution failed"]
    ELSE IF ~runnerOk
      THEN [Returned("tools/call", c) EXCEPT
              !.name = name, !.args = args, !.ran = TRUE, !.isError = TRUE,
              !.text = "Tool execution failed"]
    ELSE [Returned("tools/call", c) EXCEPT
            !.name = name, !.args = args, !.ran = TRUE, !.text = "result"]

\* handleToolsList(connectionId)
handleToolsList(conns, c) ==
  IF c \notin DOMAIN conns
    THEN Threw("tools/list", c, "Connection not found")
    ELSE [Returned("tools/list", c) EXCEPT !.list = conns[c].tools]

\* handleResourcesList(connectionId)
handleResourcesList(conns, c) ==
  IF c \notin DOMAIN conns
    THEN Threw("resources/list", c, "Connection not found")
    ELSE [Returned("resources/list", c) EXCEPT !.list = conns[c].resources]

\* initializeConnection(connectionId): this.connections.set(id, connection)
initializeConnection(conns, c) ==
  [x \in DOMAIN conns \cup {c} |-> IF x = c THEN Connection(c) ELSE conns[x]]

\* closeConnection(connectionId): this.connections.delete(id)
closeConnection(conns, c) == [x \in DOMAIN conns \ {c} |-> conns[x]]

\* ensureConnection(connectionId) of the /mcp routes
ensureConnection(conns, c) ==
  IF c \in DOMAIN conns THEN conns ELSE initializeConnection(conns, c)

\* registerTools(existingTools): this.tools is replaced and every connection
\* is given the new array.
registerToolsMutMerge(existingTools) ==
  /\ mcpTools' = mcpTools \o Catalog(existingTools)
  /\ connections' =
       [c \in DOMAIN connections |-> [connections[c] EXCEPT !.tools = mcpTools']]
registerToolsMutNoUpdate(existingTools) ==
  /\ mcpTools' = Catalog(existingTools)
  /\ connections' = connections
registerTools(existingTools) ==
  /\ mcpTools' = Catalog(existingTools)
  /\ connections' =
       [c \in DOMAIN connections |-> [connections[c] EXCEPT !.tools = mcpTools']]

\* registerResources(resourceList)
registerResources(resourceList) ==
  /\ mcpResources' = resourceList
  /\ connections' =
       [c \in DOMAIN connections |->
          [connections[c] EXCEPT !.resources = mcpResources']]

\* The toolRunner POST /mcp/tools/call passes: tools[toolName] must exist,
\* then tool.run(params).
RunnerOutcomes(name, args) ==
  IF ~ToolLookup(name) \/ ~args.given THEN {FALSE}
  ELSE {ok \in BOOLEAN :
          /\ ~ok => RunMayThrow(name)
          /\ ok => ~RunMustThrow([action |-> name, params |-> args.params])}

NotWS(tok) == tok.k # "ws"

\* JSON.parse(text): the value when text is one JSON object, else a failure.
JSONParse(text) ==
  LET t == SelectSeq(text, NotWS) IN
    IF /\ Len(t) = 6
       /\ t[1] = LB /\ t[2].k = "act" /\ t[3] = LB
       /\ t[4].k = "par" /\ t[5] = RB /\ t[6] = RB
      THEN [ok |-> TRUE, hasAction |-> TRUE,
            action |-> t[2].action, params |-> t[4].params]
    ELSE IF t = <<LB, RB>>
      THEN [ok |-> TRUE, hasAction |-> FALSE, action |-> "", params |-> {}]
    ELSE [ok |-> FALSE, hasAction |-> FALSE, action |-> "", params |-> {}]

Invocation(j) == [action |-> j.action, params |-> j.params]

\* The brace-counting scan of parseMultipleJSONObjects, from index i.
RECURSIVE ScanObjects(_, _, _, _, _)
ScanObjects(text, i, braceCount, startIndex, results) ==
  IF i > Len(text) THEN results
  ELSE IF text[i] = LB
    THEN ScanObjects(text, i + 1, braceCount + 1,
                     IF braceCount = 0 THEN i ELSE startIndex, results)
  ELSE IF text[i] = RB
    THEN IF braceCount - 1 = 0 /\ startIndex # -1
           THEN LET json == JSONParse(SubSeq(text, startIndex, i)) IN
                  ScanObjects(text, i + 1, 0, -1,
                              IF json.ok /\ json.hasAction
                                THEN Append(results, Invocation(json))
                                ELSE results)
           ELSE ScanObjects(text, i + 1, braceCount - 1, startIndex, results)
  ELSE ScanObjects(text, i + 1, braceCount, startIndex, results)

parseMultipleJSONObjects(text) ==
  LET whole == JSONParse(text) IN
    IF whole.ok /\ whole.hasAction THEN <<Invocation(whole)>>
    ELSE ScanObjects(text, 1, 0, -1, <<>>)

(* --------------------------- model behaviour -------------------------- *)

\* Frames of the upstream response body: "data: <json>" lines carrying a
\* content delta, "data: [DONE]", and lines whose payload is not JSON.
Delta(text) == [t |-> "delta", text |-> text]
DoneFrame == [t |-> "done", text |-> <<>>]
JunkFrame == [t |-> "junk", text |-> <<>>]

\* The replies the model may stream in a turn.
ModelReplies ==
  { <<Delta(<<TXT>>), DoneFrame>>,
    <<DoneFrame>>,
    <<JunkFrame, Delta(<<WS>>), DoneFrame>>,
    <<Delta(ObjText("listFiles", PGood)), DoneFrame>>,
    <<Delta(<<LB, ACT("createDirectory")>>),
      Delta(<<LB, PAR(PGood), RB, RB>>), DoneFrame>>,
    <<Delta(ObjText("listFiles", PGood) \o ObjText("createDirectory", PGood)),
      DoneFrame>>,
    <<Delta(<<TXT>> \o ObjText("nope", PGood)), DoneFrame>>,
    <<Delta(ObjText("createDirectory", PEmpty)), DoneFrame>>,
    <<Delta(ObjText("listFiles", PBadType)), DoneFrame>>,
    <<Delta(ObjText("createDirectory", PEscape)), DoneFrame>>,
    <<Delta(ObjText("toString", PGood)), DoneFrame>> }

RECURSIVE ConcatDeltas(_)
ConcatDeltas(fs) ==
  IF fs = <<>> THEN <<>>
  ELSE (IF Head(fs).t = "delta" THEN Head(fs).text ELSE <<>>)
       \o ConcatDeltas(Tail(fs))

(* ------------------------------- events ------------------------------- *)

ChunkEvent(d) == [type |-> "chunk", data |-> d]
ActionEvent(inv) == [type |-> "action", data |-> inv]
DoneEvent == [type |-> "done"]
ErrorEvent(e) == [type |-> "error", error |-> e]

TextChunk(text) == ChunkEvent([k |-> "text", text |-> text])
ToolExecutedChunk(a) == ChunkEvent([k |-> "toolExecuted", action |-> a])
ResultChunk(r) == ChunkEvent([k |-> "result", result |-> r])
MaxIterationsChunk == ChunkEvent([k |-> "maxIterations"])

\* formatUserError(error), by the class of the error.
formatUserError(e) ==
  IF e.kind = "RetryError"
    THEN [msg |-> "Service temporarily unavailable", a |-> e.a, b |-> e.b]
  ELSE IF e.kind = "ConnectionError"
    THEN [msg |-> "Unable to connect", a |-> 0, b |-> 0]
  ELSE IF e.kind = "CircuitOpen"
    THEN [msg |-> "Circuit breaker is OPEN", a |-> e.a, b |-> 0]
  ELSE [msg |-> "Error", a |-> 0, b |-> 0]

\* Mapping the events streamLMStudio yields for one frame, and the content
\* buffer it keeps: [events, buffer].
OnFrameMutNoAccumulate(frame, cb) ==
  IF frame.t = "done"
    THEN LET jsonObjects == parseMultipleJSONObjects(cb)
             nonBlank == SelectSeq(cb, NotWS) # <<>> IN
           [events |->
              (IF ~nonBlank THEN <<>>
               ELSE IF Len(jsonObjects) > 0
                 THEN [i \in 1..Len(jsonObjects) |-> ActionEvent(jsonObjects[i])]
               ELSE <<TextChunk(cb)>>) \o <<DoneEvent>>,
            buffer |-> cb]
  ELSE IF frame.t = "delta" /\ frame.text # <<>>
    THEN LET buf == frame.text
             jsonObjects == parseMultipleJSONObjects(buf) IN
           IF Len(jsonObjects) > 0
             THEN [events |->
                     [i \in 1..Len(jsonObjects) |-> ActionEvent(jsonObjects[i])],
                   buffer |-> <<>>]
             ELSE [events |-> <<>>, buffer |-> buf]
  ELSE [events |-> <<>>, buffer |-> cb]
OnFrameMutEagerChunk(frame, cb) ==
  IF frame.t = "done"
    THEN LET jsonObjects == parseMultipleJSONObjects(cb)
             nonBlank == SelectSeq(cb, NotWS) # <<>> IN
           [events |->
              (IF ~nonBlank THEN <<>>
               ELSE IF Len(jsonObjects) > 0
                 THEN [i \in 1..Len(jsonObjects) |-> ActionEvent(jsonObjects[i])]
               ELSE <<TextChunk(cb)>>) \o <<DoneEvent>>,
            buffer |-> cb]
  ELSE IF frame.t = "delta" /\ frame.text # <<>>
    THEN LET buf == cb \o frame.text
             jsonObjects == parseMultipleJSONObjects(buf) IN
           IF Len(jsonObjects) > 0
             THEN [events |->
                     [i \in 1..Len(jsonObjects) |-> ActionEvent(jsonObjects[i])],
                   buffer |-> <<>>]
             ELSE [events |-> <<TextChunk(frame.text)>>, buffer |-> buf]
  ELSE [events |-> <<>>, buffer |-> cb]
OnFrame(frame, cb) ==
  IF frame.t = "done"
    THEN LET jsonObjects == parseMultipleJSONObjects(cb)
             nonBlank == SelectSeq(cb, NotWS) # <<>> IN
           [events |->
              (IF ~nonBlank THEN <<>>
               ELSE IF Len(jsonObjects) > 0
                 THEN [i \in 1..Len(jsonObjects) |-> ActionEvent(jsonObjects[i])]
               ELSE <<TextChunk(cb)>>) \o <<DoneEvent>>,
            buffer |-> cb]
  ELSE IF frame.t = "delta" /\ frame.text # <<>>
    THEN LET buf == cb \o frame.text
             jsonObjects == parseMultipleJSONObjects(buf) IN
           IF Len(jsonObjects) > 0
             THEN [events |->
                     [i \in 1..Len(jsonObjects) |-> ActionEvent(jsonObjects[i])],
                   buffer |-> <<>>]
             ELSE [events |-> <<>>, buffer |-> buf]
  ELSE [events |-> <<>>, buffer |-> cb]

(* ---------------------- chatWithTools and POST /call ------------------ *)

\* The request served by the orchestration loop.
ChatProc == 1

\* chatWithTools is run with maxIterations drawn from 0..MaxIter.
MaxIter == 2

\* The retry policy chatWithTools passes for tool executions.
toolRetryOptions ==
  [maxRetries |-> 2, baseDelay |-> 500, maxDelay |-> 2000,
   backoffMultiplier |-> 2]

NoAction == [action |-> "", params |-> {}]
NoRun == [action |-> "", params |-> {}, via |-> "none"]
NoFail == [turns |-> -1, toolExecs |-> -1, events |-> -1]

UserMessage == [role |-> "user", content |-> [k |-> "text"]]

\* { role: "assistant", content: JSON.stringify({ action, params }) }
AssistantMessage(inv) ==
  [role |-> "assistant",
   content |-> [k |-> "json", action |-> inv.action, params |-> inv.params]]

\* { role: "user", content: `Tool result: ${toolResult}` }
ToolResultMessage(r) ==
  [role |-> "user", content |-> [k |-> "toolResult", result |-> r]]

\* `Unknown tool: ${action}. Available tools: ${Object.keys(tools).join(", ")}`
UnknownToolError(a) ==
  [msg |-> "Unknown tool", action |-> a, available |-> ToolKeys(tools)]

\* while (iterations < maxIterations)
LoopCondMutLe(i, m) == i <= m
LoopCond(i, m) == i < m

\* Start of a turn: the loop condition holds, streamLMStudio is called and
\* runs up to the first await of lmStudioCircuitBreaker.execute().
TurnBegin ==
  /\ pc = "loop"
  /\ LoopCond(iterations, maxIterations)
  /\ ExecuteEntry(ChatProc)
  /\ pc' = "upstream"
  /\ toolCallDetected' = FALSE
  /\ turns' = turns + 1
  /\ handled' = <<>>
  /\ reply' = <<>>
  /\ frames' = <<>>
  /\ contentBuffer' = <<>>
  /\ pending' = <<>>
  /\ UNCHANGED <<maxIterations, messages, currentMessages, iterations, events,
                 curAction, toolAttempt, toolWaits, callResp,
                 actionTurns, toolExecs, toolDone, runCalls, lastRun>>
  /\ readerLock' = "none"
  /\ UNCHANGED failedAt
  /\ UNCHANGED extVars

\* The loop condition fails.
LoopExit ==
  /\ pc = "loop"
  /\ ~LoopCond(iterations, maxIterations)
  /\ pc' = "post"
  /\ UNCHANGED <<maxIterations, messages, currentMessages, iterations,
                 toolCallDetected, events, frames, contentBuffer, pending,
                 curAction, toolAttempt, toolWaits, callResp, lastRun>>
  /\ UNCHANGED chatHist
  /\ UNCHANGED breakerVars
  /\ UNCHANGED callVars
  /\ UNCHANGED histVars
  /\ UNCHANGED readerLock
  /\ UNCHANGED failedAt
  /\ UNCHANGED extVars

\* execute() returned a response with a body: the reader is taken.
StreamOpen ==
  /\ pc = "upstream"
  /\ cpc[ChatProc] = "returned"
  /\ res[ChatProc].kind = "ok"
  /\ \E r \in ModelReplies :
       /\ frames' = r
       /\ reply' = r
  /\ pc' = "stream"
  /\ cpc' = [cpc EXCEPT ![ChatProc] = "idle"]
  /\ UNCHANGED <<maxIterations, messages, currentMessages, iterations,
                 toolCallDetected, events, contentBuffer, pending,
                 curAction, toolAttempt, toolWaits, callResp, lastRun,
                 handled, turns, actionTurns, toolExecs, toolDone, runCalls>>
  /\ UNCHANGED breakerVars
  /\ UNCHANGED <<attempt, res, nOps, waits>>
  /\ UNCHANGED histVars
  /\ readerLock' = "held"
  /\ UNCHANGED failedAt
  /\ UNCHANGED extVars

\* execute() threw (breaker open, retries exhausted), or the response has no
\* body (ConnectionError): the catch block yields one error event and the
\* generator ends.
StreamFail ==
  /\ pc = "upstream"
  /\ cpc[ChatProc] = "returned"
  /\ LET e == IF res[ChatProc].kind = "ok"
                THEN [kind |-> "ConnectionError", a |-> 0, b |-> 0]
                ELSE res[ChatProc] IN
       pending' = <<ErrorEvent(formatUserError(e))>>
  /\ pc' = "stream"
  /\ cpc' = [cpc EXCEPT ![ChatProc] = "idle"]
  /\ UNCHANGED <<maxIterations, messages, currentMessages, iterations,
                 toolCallDetected, events, frames, contentBuffer,
                 curAction, toolAttempt, toolWaits, callResp, lastRun>>
  /\ UNCHANGED chatHist
  /\ UNCHANGED breakerVars
  /\ UNCHANGED <<attempt, res, nOps, waits>>
  /\ UNCHANGED histVars
  /\ UNCHANGED readerLock
  /\ failedAt' = [turns |-> turns, toolExecs |-> toolExecs, events |-> Len(events)]
  /\ UNCHANGED extVars

\* reader.read() returns the next line(s): streamLMStudio processes one frame.
ReadFrame ==
  /\ pc = "stream"
  /\ pending = <<>>
  /\ frames # <<>>
  /\ LET r == OnFrame(Head(frames), contentBuffer) IN
       /\ pending' = r.events
       /\ contentBuffer' = r.buffer
  /\ frames' = Tail(frames)
  /\ UNCHANGED <<pc, maxIterations, messages, currentMessages, iterations,
                 toolCallDetected, events, curAction, toolAttempt, toolWaits,
                 callResp, lastRun>>
  /\ UNCHANGED chatHist
  /\ UNCHANGED breakerVars
  /\ UNCHANGED callVars
  /\ UNCHANGED histVars
  /\ UNCHANGED readerLock
  /\ UNCHANGED failedAt
  /\ UNCHANGED extVars

\* reader.read() rejects in mid-stream: the lock is released and the catch
\* block yields one error event.
ReadError ==
  /\ pc = "stream"
  /\ pending = <<>>
  /\ frames # <<>>
  /\ pending' = <<ErrorEvent(formatUserError([kind |-> "Error", a |-> 0, b |-> 0]))>>
  /\ frames' = <<>>
  /\ UNCHANGED <<pc, maxIterations, messages, currentMessages, iterations,
                 toolCallDetected, events, contentBuffer, curAction,
                 toolAttempt, toolWaits, callResp, lastRun>>
  /\ UNCHANGED chatHist
  /\ UNCHANGED breakerVars
  /\ UNCHANGED callVars
  /\ UNCHANGED histVars
  /\ readerLock' = "released"
  /\ failedAt' = [turns |-> turns, toolExecs |-> toolExecs, events |-> Len(events)]
  /\ UNCHANGED extVars

\* for await gets an event that is no action: `yield chunk` forwards it.
Forward ==
  /\ pc = "stream"
  /\ pending # <<>>
  /\ Head(pending).type # "action"
  /\ events' = Append(events, Head(pending))
  /\ pending' = Tail(pending)
  /\ UNCHANGED <<pc, maxIterations, messages, currentMessages, iterations,
                 toolCallDetected, frames, contentBuffer, curAction,
                 toolAttempt, toolWaits, callResp, lastRun>>
  /\ UNCHANGED chatHist
  /\ UNCHANGED breakerVars
  /\ UNCHANGED callVars
  /\ UNCHANGED histVars
  /\ UNCHANGED readerLock
  /\ UNCHANGED failedAt
  /\ UNCHANGED extVars

\* for await gets an action event naming a registered tool: withRetry
\* invokes tool.run(params) for the first time.
ActionKnownMutNoWait ==
  /\ pc = "stream"
  /\ pending # <<>>
  /\ Head(pending).type = "action"
  /\ ToolLookup(Head(pending).data.action)
  /\ curAction' = Head(pending).data
  /\ pending' = Tail(pending)
  /\ pc' = "afterstream"
  /\ toolAttempt' = 1
  /\ toolWaits' = <<>>
  /\ handled' = Append(handled, Head(pending).data)
  /\ actionTurns' = actionTurns + 1
  /\ toolExecs' = toolExecs + 1
  /\ runCalls' = runCalls + (IF HasRun(Head(pending).data.action) THEN 1 ELSE 0)
  /\ lastRun' = IF HasRun(Head(pending).data.action)
                  THEN [action |-> Head(pending).data.action,
                        params |-> Head(pending).data.params, via |-> "chat"]
                  ELSE lastRun
  /\ UNCHANGED <<maxIterations, messages, currentMessages, iterations,
                 toolCallDetected, events, frames, contentBuffer, callResp,
                 reply, turns, toolDone>>
  /\ UNCHANGED breakerVars
  /\ UNCHANGED callVars
  /\ UNCHANGED histVars
  /\ UNCHANGED readerLock
  /\ UNCHANGED failedAt
  /\ UNCHANGED extVars
ActionKnown ==
  /\ pc = "stream"
  /\ pending # <<>>
  /\ Head(pending).type = "action"
  /\ ToolLookup(Head(pending).data.action)
  /\ curAction' = Head(pending).data
  /\ pending' = Tail(pending)
  /\ pc' = "tool"
  /\ toolAttempt' = 1
  /\ toolWaits' = <<>>
  /\ handled' = Append(handled, Head(pending).data)
  /\ actionTurns' = actionTurns + 1
  /\ toolExecs' = toolExecs + 1
  /\ runCalls' = runCalls + (IF HasRun(Head(pending).data.action) THEN 1 ELSE 0)
  /\ lastRun' = IF HasRun(Head(pending).data.action)
                  THEN [action |-> Head(pending).data.action,
                        params |-> Head(pending).data.params, via |-> "chat"]
                  ELSE lastRun
  /\ UNCHANGED <<maxIterations, messages, currentMessages, iterations,
                 toolCallDetected, events, frames, contentBuffer, callResp,
                 reply, turns, toolDone>>
  /\ UNCHANGED breakerVars
  /\ UNCHANGED callVars
  /\ UNCHANGED histVars
  /\ UNCHANGED readerLock
  /\ UNCHANGED failedAt
  /\ UNCHANGED extVars

\* for await gets an action event naming no registered tool: an error event
\* is yielded, and `break` closes the stream.
ActionUnknown ==
  /\ pc = "stream"
  /\ pending # <<>>
  /\ Head(pending).type = "action"
  /\ ~ToolLookup(Head(pending).data.action)
  /\ events' = Append(events, ErrorEvent(UnknownToolError(Head(pending).data.action)))
  /\ toolCallDetected' = TRUE
  /\ handled' = Append(handled, Head(pending).data)
  /\ actionTurns' = actionTurns + 1
  /\ pending' = <<>>
  /\ frames' = <<>>
  /\ pc' = "afterstream"
  /\ UNCHANGED <<maxIterations, messages, currentMessages, iterations,
                 contentBuffer, curAction, toolAttempt, toolWaits, callResp,
                 lastRun, reply, turns, toolExecs, toolDone, runCalls>>
  /\ UNCHANGED breakerVars
  /\ UNCHANGED callVars
  /\ UNCHANGED histVars
  /\ readerLock' = "released"
  /\ UNCHANGED failedAt
  /\ UNCHANGED extVars

\* The messages pushed after a successful tool execution.
ToolMessagesMutSwapped(inv, r) == <<ToolResultMessage(r), AssistantMessage(inv)>>
ToolMessages(inv, r) == <<AssistantMessage(inv), ToolResultMessage(r)>>

\* tool.run(params) resolves: two chunks are yielded, two messages pushed,
\* and `break` closes the stream.
ToolOkMutKeepStream ==
  /\ pc = "tool"
  /\ ~RunMustThrow(curAction)
  /\ \E r \in {"text"} :
       /\ events' = events \o <<ToolExecutedChunk(curAction.action), ResultChunk(r)>>
       /\ currentMessages' = currentMessages \o ToolMessages(curAction, r)
  /\ toolCallDetected' = TRUE
  /\ toolDone' = toolDone + 1
  /\ pending' = pending
  /\ frames' = frames
  /\ pc' = "stream"
  /\ UNCHANGED <<maxIterations, messages, iterations, contentBuffer, curAction,
                 toolAttempt, toolWaits, callResp, lastRun,
                 reply, handled, turns, actionTurns, toolExecs, runCalls>>
  /\ UNCHANGED breakerVars
  /\ UNCHANGED callVars
  /\ UNCHANGED histVars
  /\ readerLock' = readerLock
  /\ UNCHANGED failedAt
  /\ UNCHANGED extVars
ToolOk ==
  /\ pc = "tool"
  /\ ~RunMustThrow(curAction)
  /\ \E r \in {"text"} :
       /\ events' = events \o <<ToolExecutedChunk(curAction.action), ResultChunk(r)>>
       /\ currentMessages' = currentMessages \o ToolMessages(curAction, r)
  /\ toolCallDetected' = TRUE
  /\ toolDone' = toolDone + 1
  /\ pending' = <<>>
  /\ frames' = <<>>
  /\ pc' = "afterstream"
  /\ UNCHANGED <<maxIterations, messages, iterations, contentBuffer, curAction,
                 toolAttempt, toolWaits, callResp, lastRun,
                 reply, handled, turns, actionTurns, toolExecs, runCalls>>
  /\ UNCHANGED breakerVars
  /\ UNCHANGED callVars
  /\ UNCHANGED histVars
  /\ readerLock' = "released"
  /\ UNCHANGED failedAt
  /\ UNCHANGED extVars

\* tool.run(params) rejects and retries remain: withRetry waits.
ToolFailRetry ==
  /\ pc = "tool"
  /\ RunMayThrow(curAction.action)
  /\ ~RetriesExhausted(toolAttempt, toolRetryOptions)
  /\ toolWaits' = Append(toolWaits, RetryDelay(toolAttempt, toolRetryOptions))
  /\ pc' = "toolwait"
  /\ UNCHANGED <<maxIterations, messages, currentMessages, iterations,
                 toolCallDetected, events, frames, contentBuffer, pending,
                 curAction, toolAttempt, callResp, lastRun>>
  /\ UNCHANGED chatHist
  /\ UNCHANGED breakerVars
  /\ UNCHANGED callVars
  /\ UNCHANGED histVars
  /\ UNCHANGED readerLock
  /\ UNCHANGED failedAt
  /\ UNCHANGED extVars

\* The backoff timer fires: withRetry invokes tool.run(params) again.
ToolBackoffDone ==
  /\ pc = "toolwait"
  /\ pc' = "tool"
  /\ toolAttempt' = toolAttempt + 1
  /\ runCalls' = runCalls + (IF HasRun(curAction.action) THEN 1 ELSE 0)
  /\ lastRun' = IF HasRun(curAction.action)
                  THEN [action |-> curAction.action,
                        params |-> curAction.params, via |-> "chat"]
                  ELSE lastRun
  /\ UNCHANGED <<maxIterations, messages, currentMessages, iterations,
                 toolCallDetected, events, frames, contentBuffer, pending,
                 curAction, toolWaits, callResp,
                 reply, handled, turns, actionTurns, toolExecs, toolDone>>
  /\ UNCHANGED breakerVars
  /\ UNCHANGED callVars
  /\ UNCHANGED histVars
  /\ UNCHANGED readerLock
  /\ UNCHANGED failedAt
  /\ UNCHANGED extVars

\* tool.run(params) rejects on the last attempt: withRetry throws RetryError,
\* the catch block yields an error event, and `break` closes the stream.
ToolFailFinal ==
  /\ pc = "tool"
  /\ RunMayThrow(curAction.action)
  /\ RetriesExhausted(toolAttempt, toolRetryOptions)
  /\ events' = Append(events,
                      ErrorEvent(formatUserError(RetryError(toolAttempt, toolRetryOptions))))
  /\ toolCallDetected' = TRUE
  /\ toolDone' = toolDone + 1
  /\ pending' = <<>>
  /\ frames' = <<>>
  /\ pc' = "afterstream"
  /\ UNCHANGED <<maxIterations, messages, currentMessages, iterations,
                 contentBuffer, curAction, toolAttempt, toolWaits, callResp,
                 lastRun, reply, handled, turns, actionTurns, toolExecs, runCalls>>
  /\ UNCHANGED breakerVars
  /\ UNCHANGED callVars
  /\ UNCHANGED histVars
  /\ readerLock' = "released"
  /\ UNCHANGED failedAt
  /\ UNCHANGED extVars

\* The reader reports the end of the body, or the generator has yielded its
\* error event: the for await loop ends.
StreamEnd ==
  /\ pc = "stream"
  /\ pending = <<>>
  /\ frames = <<>>
  /\ pc' = "afterstream"
  /\ UNCHANGED <<maxIterations, messages, currentMessages, iterations,
                 toolCallDetected, events, frames, contentBuffer, pending,
                 curAction, toolAttempt, toolWaits, callResp, lastRun>>
  /\ UNCHANGED chatHist
  /\ UNCHANGED breakerVars
  /\ UNCHANGED callVars
  /\ UNCHANGED histVars
  /\ readerLock' = IF readerLock = "held" THEN "released" ELSE readerLock
  /\ UNCHANGED failedAt
  /\ UNCHANGED extVars

AfterStreamMutContinue ==
  /\ pc = "afterstream"
  /\ pc' = "loop"
  /\ iterations' = iterations + 1
  /\ UNCHANGED <<maxIterations, messages, currentMessages, toolCallDetected,
                 events, frames, contentBuffer, pending, curAction,
                 toolAttempt, toolWaits, callResp, lastRun>>
  /\ UNCHANGED chatHist
  /\ UNCHANGED breakerVars
  /\ UNCHANGED callVars
  /\ UNCHANGED histVars
  /\ UNCHANGED readerLock
  /\ UNCHANGED failedAt
  /\ UNCHANGED extVars

AfterStreamMutNoCount ==
  /\ pc = "afterstream"
  /\ IF ~toolCallDetected
       THEN pc' = "post"
       ELSE pc' = "loop"
  /\ iterations' = iterations
  /\ UNCHANGED <<maxIterations, messages, currentMessages, toolCallDetected,
                 events, frames, contentBuffer, pending, curAction,
                 toolAttempt, toolWaits, callResp, lastRun>>
  /\ UNCHANGED chatHist
  /\ UNCHANGED breakerVars
  /\ UNCHANGED callVars
  /\ UNCHANGED histVars
  /\ UNCHANGED readerLock
  /\ UNCHANGED failedAt
  /\ UNCHANGED extVars

\* if (!toolCallDetected) break; iterations++
AfterStream ==
  /\ pc = "afterstream"
  /\ IF ~toolCallDetected
       THEN /\ pc' = "post"
            /\ iterations' = iterations
       ELSE /\ pc' = "loop"
            /\ iterations' = iterations + 1
  /\ UNCHANGED <<maxIterations, messages, currentMessages, toolCallDetected,
                 events, frames, contentBuffer, pending, curAction,
                 toolAttempt, toolWaits, callResp, lastRun>>
  /\ UNCHANGED chatHist
  /\ UNCHANGED breakerVars
  /\ UNCHANGED callVars
  /\ UNCHANGED histVars
  /\ UNCHANGED readerLock
  /\ UNCHANGED failedAt
  /\ UNCHANGED extVars

\* if (iterations >= maxIterations) yield the warning chunk; the run ends.
PostLoop ==
  /\ pc = "post"
  /\ events' = IF iterations >= maxIterations
                 THEN Append(events, MaxIterationsChunk)
                 ELSE events
  /\ pc' = "end"
  /\ UNCHANGED <<maxIterations, messages, currentMessages, iterations,
                 toolCallDetected, frames, contentBuffer, pending, curAction,
                 toolAttempt, toolWaits, callResp, lastRun>>
  /\ UNCHANGED chatHist
  /\ UNCHANGED breakerVars
  /\ UNCHANGED callVars
  /\ UNCHANGED histVars
  /\ UNCHANGED readerLock
  /\ UNCHANGED failedAt
  /\ UNCHANGED extVars

\* POST /call { action, params }: 400 for an unknown tool, else tool.run(params)
\* and its result (a rejection is answered by the error handler).
PostCall(a, p) ==
  /\ pc = "end"
  /\ IF ~ToolLookup(a)
       THEN /\ callResp' = [status |-> 400, body |-> "Unknown tool", action |-> a]
            /\ lastRun' = lastRun
       ELSE /\ lastRun' = IF HasRun(a)
                            THEN [action |-> a, params |-> p, via |-> "call"]
                            ELSE lastRun
            /\ \E ok \in {TRUE, FALSE} :
                 /\ (~ok => RunMayThrow(a))
                 /\ (ok => ~RunMustThrow([action |-> a, params |-> p]))
                 /\ callResp' = IF ok THEN [status |-> 200, body |-> "result", action |-> a]
                                      ELSE [status |-> 500, body |-> "error", action |-> a]
  /\ UNCHANGED chatVars
  /\ UNCHANGED chatHist
  /\ UNCHANGED breakerVars
  /\ UNCHANGED callVars
  /\ UNCHANGED histVars
  /\ UNCHANGED readerLock
  /\ UNCHANGED failedAt
  /\ UNCHANGED extVars

(* --------------------------- specifications --------------------------- *)

\* execute() called by a request that is not the modelled chat run.
Execute(p) ==
  /\ ExecuteEntry(p)
  /\ UNCHANGED chatAll
  /\ UNCHANGED extVars

\* The request that called execute() is over; the next one may come.
Return(p) ==
  /\ cpc[p] = "returned"
  /\ cpc' = [cpc EXCEPT ![p] = "idle"]
  /\ res' = [res EXCEPT ![p] = NoResult]
  /\ attempt' = [attempt EXCEPT ![p] = 0]
  /\ nOps' = [nOps EXCEPT ![p] = 0]
  /\ waits' = [waits EXCEPT ![p] = <<>>]
  /\ UNCHANGED breakerVars
  /\ UNCHANGED histVars
  /\ UNCHANGED chatAll
  /\ UNCHANGED extVars

InitCalls ==
  /\ cpc = [p \in Procs |-> "idle"]
  /\ attempt = [p \in Procs |-> 0]
  /\ res = [p \in Procs |-> NoResult]
  /\ nOps = [p \in Procs |-> 0]
  /\ waits = [p \in Procs |-> <<>>]
  /\ consec = 0
  /\ lastEnd = [outcome |-> "none", pre |-> "CLOSED"]

InitChatVars(start) ==
  /\ pc = start
  /\ iterations = 0
  /\ toolCallDetected = FALSE
  /\ events = <<>>
  /\ frames = <<>>
  /\ contentBuffer = <<>>
  /\ pending = <<>>
  /\ curAction = NoAction
  /\ toolAttempt = 0
  /\ toolWaits = <<>>
  /\ callResp = [status |-> 0, body |-> "", action |-> ""]
  /\ reply = <<>>
  /\ handled = <<>>
  /\ turns = 0
  /\ actionTurns = 0
  /\ toolExecs = 0
  /\ toolDone = 0
  /\ runCalls = 0
  /\ lastRun = NoRun
  /\ readerLock = "none"
  /\ failedAt = NoFail

\* No withRetry or parseMultipleJSONObjects call made on its own, and no
\* WebSocket request.
InitRetryOff ==
  /\ rpc = "off"
  /\ rOptions = toolRetryOptions
  /\ rAttempt = 0
  /\ rOps = <<>>
  /\ rWaits = <<>>
  /\ rLastError = "none"
  /\ rResult = [kind |-> "none"]

InitParseOff ==
  /\ ppc = "off"
  /\ pText = <<>>
  /\ pResult = <<>>

NoClose == [turns |-> -1, toolExecs |-> -1, toolDone |-> -1]

InitWsOff ==
  /\ wsOpen = TRUE
  /\ sent = 0
  /\ closedAt = NoClose

NoObserved == [seen |-> FALSE, keys |-> <<>>]

\* chatWithTools runs in flight together: at most MaxRuns.
MaxRuns == 2

Runs == 1..MaxRuns

\* The array the callers pass as messages.
CallerArray == 0

\* No run of several concurrent chatWithTools runs.
InitRunsOff ==
  /\ heap = [a \in {CallerArray} \cup Runs |->
               IF a = CallerArray THEN <<UserMessage>> ELSE <<>>]
  /\ runPc = [r \in Runs |-> "off"]
  /\ runArr = [r \in Runs |-> CallerArray]
  /\ runIter = [r \in Runs |-> 0]
  /\ runSent = [r \in Runs |-> <<>>]

\* The client addresses the rate limiter sees.
IPs == {"ip1", "ip2"}

\* The middleware's outcome: the client, the status it answered (0 when the
\* request was handed to next()), and the time of the request.
NoRateResp == [ip |-> "", status |-> 0, retryAfter |-> 0, next |-> FALSE, at |-> 0]

\* `const rateLimits = new Map()`: no request has passed the rate limiter.
InitRateOff ==
  /\ rateLimits = [k \in {} |-> [count |-> 0, reset |-> 0]]
  /\ rlResp = NoRateResp
  /\ admitted = [k \in IPs |-> 0]
  /\ windowEnd = [k \in IPs |-> 0]

\* A JSON-RPC id: a number, a string, or absent from the body.
NumId(n) == [t |-> "number", n |-> n, s |-> ""]
StrId(x) == [t |-> "string", n |-> 0, s |-> x]
NoId == [t |-> "undefined", n |-> 0, s |-> ""]

NoRpcReq == [method |-> "", id |-> NoId]
NoRpcResp == [status |-> 0, id |-> NoId, kind |-> "none", message |-> ""]

\* No /mcp request answered yet.
InitRpcOff ==
  /\ rpcReq = NoRpcReq
  /\ rpcResp = NoRpcResp

\* No POST /chat request with stream = false.
InitPlainOff ==
  /\ npc = "off"
  /\ nContent = <<>>
  /\ nQueue = <<>>
  /\ nCur = [action |-> "", params |-> {}]
  /\ nAttempt = 0
  /\ nResults = <<>>
  /\ nExecutes = 0
  /\ nResp = 0

\* No read loop taken on its own.
InitReadOff ==
  /\ rdpc = "off"
  /\ rdBytes = <<>>
  /\ rdPos = 0
  /\ rdDecoder = FALSE
  /\ rdBuffer = <<>>
  /\ rdContent = <<>>
  /\ rdEvents = <<>>

InitLateOff == InitRateOff /\ InitRpcOff /\ InitPlainOff /\ InitReadOff

\* No resolveInSandbox call made on its own.
InitSandboxOff ==
  /\ sbpc = "off"
  /\ sbPath = [abs |-> FALSE, segs |-> <<>>]
  /\ sbResult = NoPath

\* The server after start-up: every tool module loaded and registered with
\* the MCP server, no MCP connection yet.
InitServed ==
  /\ tools = LoadedTools
  /\ toLoad = <<>>
  /\ spc = "ready"
  /\ mcpTools = Catalog(LoadedTools)
  /\ mcpResources = <<>>
  /\ connections = [c \in {} |-> Connection(c)]
  /\ mcpResp = NoMcp
  /\ observed = NoObserved
  /\ initialized = {}
  /\ lastRegistered = LoadedTools
  /\ lastResources = <<>>

\* A new CircuitBreaker with threshold th, and the request's generator at
\* position start with nothing done yet.
InitRun(th, start) ==
  /\ state = "CLOSED"
  /\ failures = 0
  /\ lastFailureTime = 0
  /\ threshold = th
  /\ now = 0
  /\ openedAt = -1
  /\ InitCalls
  /\ InitChatVars(start)

\* No chatWithTools run.
NoChatArgs ==
  /\ maxIterations = 0
  /\ messages = <<>>
  /\ currentMessages = <<>>

\* A new CircuitBreaker with threshold th and no chat run.
InitBase(th) == InitRun(th, "off") /\ NoChatArgs

InitBreaker(th) ==
  /\ InitBase(th)
  /\ InitRetryOff
  /\ InitParseOff
  /\ InitWsOff
  /\ InitSandboxOff
  /\ InitRunsOff
  /\ InitLateOff
  /\ InitServed

\* lmStudioCircuitBreaker, shared by requests that call execute() concurrently.
Init == InitBreaker(LMThreshold)

Next ==
  \/ \E p \in Procs : Execute(p)
  \/ \E p \in Procs : FetchOk(p)
  \/ \E p \in Procs : FetchFailRetry(p)
  \/ \E p \in Procs : BackoffDone(p)
  \/ \E p \in Procs : FetchFailFinal(p)
  \/ \E p \in Procs : Return(p)
  \/ Tick

Spec == Init /\ [][Next]_vars

\* The same breaker with its calls run one at a time.
NoCallInFlight == \A q \in Procs : cpc[q] = "idle"

ExecuteSeq(p) ==
  /\ NoCallInFlight
  /\ Execute(p)

NextSeq ==
  \/ \E p \in Procs : ExecuteSeq(p)
  \/ \E p \in Procs : FetchOk(p)
  \/ \E p \in Procs : FetchFailRetry(p)
  \/ \E p \in Procs : BackoffDone(p)
  \/ \E p \in Procs : FetchFailFinal(p)
  \/ \E p \in Procs : Return(p)
  \/ Tick

\* A CircuitBreaker of any threshold in 1..MaxThreshold.
InitSeq == \E th \in 1..MaxThreshold : InitBreaker(th)

SpecSeq == InitSeq /\ [][NextSeq]_vars

\* One chatWithTools run, started when lmStudioCircuitBreaker is CLOSED, or
\* was opened by earlier requests a cooldown ago or longer; the run is short
\* against the clock's granularity.
InitChat ==
  /\ threshold = LMThreshold
  /\ lastFailureTime = 0
  /\ \/ state = "CLOSED" /\ failures = 0 /\ openedAt = -1 /\ now = 0
     \/ /\ state = "OPEN" /\ failures = LMThreshold /\ openedAt = 0
        /\ now \in {Timeout, Timeout + TickMs}
  /\ InitCalls
  /\ InitChatVars("loop")
  /\ maxIterations \in 0..MaxIter
  /\ messages \in {<<>>, <<UserMessage>>}
  /\ currentMessages = messages
  /\ InitRetryOff
  /\ InitParseOff
  /\ InitWsOff
  /\ InitSandboxOff
  /\ InitRunsOff
  /\ InitLateOff
  /\ InitServed

NextChat ==
  \/ TurnBegin
  \/ LoopExit
  \/ FetchOk(ChatProc)
  \/ FetchFailRetry(ChatProc)
  \/ BackoffDone(ChatProc)
  \/ FetchFailFinal(ChatProc)
  \/ StreamOpen
  \/ StreamFail
  \/ ReadFrame
  \/ ReadError
  \/ Forward
  \/ ActionKnown
  \/ ActionUnknown
  \/ ToolOk
  \/ ToolFailRetry
  \/ ToolBackoffDone
  \/ ToolFailFinal
  \/ StreamEnd
  \/ AfterStream
  \/ PostLoop

SpecChat == InitChat /\ [][NextChat]_vars

(* -------------------------- withRetry on its own ---------------------- *)

\* withRetry is called with maxRetries drawn from 0..MaxRetries: enough retries
\* for the delay of either policy to grow past its maxDelay.
MaxRetries == 5

\* The options of a withRetry call: the delays of lmStudioRetryOptions or of
\* the tool policy, with any maxRetries.
RetryOptionSets ==
  { [o EXCEPT !.maxRetries = r] :
      o \in {lmStudioRetryOptions, toolRetryOptions}, r \in 0..MaxRetries }

\* What an invocation of the operation resolves or rejects with.
OpValues == {"v1", "v2"}
OpErrors == {"e1", "e2"}

\* withRetry(operation, options) is called: attempt = 1 and the operation is
\* invoked, up to the first await.
InitRetry ==
  /\ InitBase(LMThreshold)
  /\ InitParseOff
  /\ InitWsOff
  /\ InitSandboxOff
  /\ InitRunsOff
  /\ InitLateOff
  /\ InitServed
  /\ rpc = "await"
  /\ rOptions \in RetryOptionSets
  /\ rAttempt = 1
  /\ rOps = <<>>
  /\ rWaits = <<>>
  /\ rLastError = "none"
  /\ rResult = [kind |-> "none"]

\* `const result = await operation(); return result`
RetryOpOk ==
  /\ rpc = "await"
  /\ \E v \in OpValues :
       /\ rOps' = Append(rOps, [ok |-> TRUE, v |-> v])
       /\ rResult' = [kind |-> "value", v |-> v]
  /\ rpc' = "done"
  /\ UNCHANGED <<rOptions, rAttempt, rWaits, rLastError>>
  /\ UNCHANGED <<parseVars, wsVars>>
  /\ UNCHANGED servedVars
  /\ UNCHANGED <<breakerVars, callVars, histVars, chatAll>>

\* The operation rejects: lastError is set; on the last attempt RetryError is
\* thrown, otherwise the delay is computed and setTimeout awaited.
RetryOpFail ==
  /\ rpc = "await"
  /\ \E e \in OpErrors :
       /\ rOps' = Append(rOps, [ok |-> FALSE, v |-> e])
       /\ rLastError' = e
       /\ IF RetriesExhausted(rAttempt, rOptions)
            THEN /\ rResult' = [kind |-> "RetryError",
                                error |-> RetryError(rAttempt, rOptions),
                                originalError |-> e]
                 /\ rpc' = "done"
                 /\ rWaits' = rWaits
            ELSE /\ rResult' = rResult
                 /\ rpc' = "wait"
                 /\ rWaits' = Append(rWaits,
                                     [delay |-> RetryDelay(rAttempt, rOptions),
                                      after |-> Len(rOps) + 1])
  /\ UNCHANGED <<rOptions, rAttempt>>
  /\ UNCHANGED <<parseVars, wsVars>>
  /\ UNCHANGED servedVars
  /\ UNCHANGED <<breakerVars, callVars, histVars, chatAll>>

\* The timer fires: attempt++ and the operation is invoked again.
RetryTimer ==
  /\ rpc = "wait"
  /\ rAttempt + 1 <= rOptions.maxRetries + 1
  /\ rAttempt' = rAttempt + 1
  /\ rpc' = "await"
  /\ UNCHANGED <<rOptions, rOps, rWaits, rLastError, rResult>>
  /\ UNCHANGED <<parseVars, wsVars>>
  /\ UNCHANGED servedVars
  /\ UNCHANGED <<breakerVars, callVars, histVars, chatAll>>

NextRetry ==
  \/ RetryOpOk
  \/ RetryOpFail
  \/ RetryTimer

SpecRetry == InitRetry /\ [][NextRetry]_vars

(* ------------------- parseMultipleJSONObjects on its own -------------- *)

\* A text is made of at most MaxPieces pieces.
MaxPieces == 3

\* The pieces of a text: narration, white space, a lone brace, an empty
\* object, narration in braces, and complete tool-call objects.
ParsePieces ==
  { <<TXT>>, <<WS>>, <<LB>>, <<RB>>, <<LB, RB>>, <<LB, TXT, RB>>,
    ObjText("listFiles", PGood), ObjText("createDirectory", PEmpty) }

RECURSIVE Flatten(_)
Flatten(ps) == IF ps = <<>> THEN <<>> ELSE Head(ps) \o Flatten(Tail(ps))

ParseTexts ==
  { Flatten(ps) : ps \in UNION { [1..n -> ParsePieces] : n \in 0..MaxPieces } }

\* parseMultipleJSONObjects(text) is about to be called.
InitParse ==
  /\ InitBase(LMThreshold)
  /\ InitRetryOff
  /\ InitWsOff
  /\ InitSandboxOff
  /\ InitRunsOff
  /\ InitLateOff
  /\ InitServed
  /\ ppc = "start"
  /\ pText \in ParseTexts
  /\ pResult = <<>>

\* The call returns.
ParseCall ==
  /\ ppc = "start"
  /\ pResult' = parseMultipleJSONObjects(pText)
  /\ ppc' = "done"
  /\ UNCHANGED pText
  /\ UNCHANGED <<retryVars, wsVars>>
  /\ UNCHANGED servedVars
  /\ UNCHANGED <<breakerVars, callVars, histVars, chatAll>>

NextParse == ParseCall

SpecParse == InitParse /\ [][NextParse]_vars

(* --------------- streamLMStudio consumed to its end -------------------- *)

\* A tool-call text is streamed in at most MaxDeltas content deltas.
MaxDeltas == 3

\* The pieces of text cut after the positions in cuts, from index start on.
RECURSIVE PiecesFrom(_, _, _, _)
PiecesFrom(text, cuts, start, i) ==
  IF i > Len(text) THEN <<>>
  ELSE IF i \in cuts \/ i = Len(text)
    THEN <<SubSeq(text, start, i)>> \o PiecesFrom(text, cuts, i + 1, i + 1)
  ELSE PiecesFrom(text, cuts, start, i + 1)

\* Every way of streaming text in 1..MaxDeltas non-empty deltas, then [DONE].
SplitReplies(text) ==
  { LET ps == PiecesFrom(text, cuts, 1, 1) IN
      [i \in 1..Len(ps) |-> Delta(ps[i])] \o <<DoneFrame>> :
    cuts \in { c \in SUBSET (1..(Len(text) - 1)) : Cardinality(c) < MaxDeltas } }

\* The bodies POST /chat/legacy may get: one or two tool calls split at any
\* points, narration, blank text, an unfinished tool call, nothing.
StreamReplies ==
  SplitReplies(ObjText("listFiles", PGood))
    \cup SplitReplies(ObjText("listFiles", PGood) \o ObjText("createDirectory", PGood))
    \cup SplitReplies(<<TXT, WS, TXT>>)
    \cup SplitReplies(<<LB, ACT("listFiles"), LB, PAR(PGood), RB>>)
    \cup { <<DoneFrame>>, <<Delta(<<WS>>), DoneFrame>>,
           <<JunkFrame, Delta(<<>>), Delta(<<TXT>>), DoneFrame>> }

\* POST /chat/legacy has called streamLMStudio and pulls every event of it.
InitStream ==
  /\ InitRun(LMThreshold, "legacy")
  /\ NoChatArgs
  /\ InitRetryOff
  /\ InitParseOff
  /\ InitWsOff
  /\ InitSandboxOff
  /\ InitRunsOff
  /\ InitLateOff
  /\ InitServed

\* The upstream response has arrived with a body: the reader is taken.
LegacyOpen ==
  /\ pc = "legacy"
  /\ \E r \in StreamReplies :
       /\ frames' = r
       /\ reply' = r
  /\ pc' = "stream"
  /\ readerLock' = "held"
  /\ UNCHANGED <<maxIterations, messages, currentMessages, iterations,
                 toolCallDetected, events, contentBuffer, pending,
                 curAction, toolAttempt, toolWaits, callResp, lastRun,
                 handled, turns, actionTurns, toolExecs, toolDone, runCalls,
                 failedAt>>
  /\ UNCHANGED <<breakerVars, callVars, histVars, extVars>>

\* pull(): iterator.next() gives an event, which is enqueued whatever its type.
LegacyPull ==
  /\ pc = "stream"
  /\ pending # <<>>
  /\ events' = Append(events, Head(pending))
  /\ pending' = Tail(pending)
  /\ UNCHANGED <<pc, maxIterations, messages, currentMessages, iterations,
                 toolCallDetected, frames, contentBuffer, curAction,
                 toolAttempt, toolWaits, callResp, lastRun, readerLock, failedAt>>
  /\ UNCHANGED chatHist
  /\ UNCHANGED <<breakerVars, callVars, histVars, extVars>>

\* iterator.next() reports done: the generator has returned, ctrl.close().
LegacyEnd ==
  /\ pc = "stream"
  /\ pending = <<>>
  /\ frames = <<>>
  /\ pc' = "end"
  /\ readerLock' = IF readerLock = "held" THEN "released" ELSE readerLock
  /\ UNCHANGED <<maxIterations, messages, currentMessages, iterations,
                 toolCallDetected, events, frames, contentBuffer, pending,
                 curAction, toolAttempt, toolWaits, callResp, lastRun, failedAt>>
  /\ UNCHANGED chatHist
  /\ UNCHANGED <<breakerVars, callVars, histVars, extVars>>

NextStream ==
  \/ LegacyOpen
  \/ ReadFrame
  \/ ReadError
  \/ LegacyPull
  \/ LegacyEnd

SpecStream == InitStream /\ [][NextStream]_vars

(* ------------------- chatWithTools behind the WebSocket --------------- *)

\* websocket.message got a chat request and iterates chatWithTools(messages);
\* lmStudioCircuitBreaker is CLOSED.
InitWs ==
  /\ InitRun(LMThreshold, "loop")
  /\ maxIterations = MaxIter
  /\ messages = <<UserMessage>>
  /\ currentMessages = messages
  /\ InitRetryOff
  /\ InitParseOff
  /\ InitWsOff
  /\ InitSandboxOff
  /\ InitRunsOff
  /\ InitLateOff
  /\ InitServed

\* The handler has processed every event the run has yielded: the generator
\* is running or awaiting, not suspended at a yield.
HandlerIdle == sent = Len(events)

\* The run awaits I/O or a timer (the upstream fetch or its backoff, the next
\* read of the body, the tool or its backoff): the event loop can run the
\* socket's close, after which ws.readyState is no longer 1. Between a yield
\* and the next await the generator and the handler run without giving the
\* event loop a turn.
RunAwaits ==
  \/ pc = "upstream" /\ cpc[ChatProc] \in {"fetch", "backoff"}
  \/ pc = "stream" /\ pending = <<>> /\ frames # <<>>
  \/ pc \in {"tool", "toolwait"}

Disconnect ==
  /\ wsOpen
  /\ HandlerIdle
  /\ RunAwaits
  /\ wsOpen' = FALSE
  /\ closedAt' = [turns |-> turns, toolExecs |-> toolExecs, toolDone |-> toolDone]
  /\ UNCHANGED sent
  /\ UNCHANGED <<retryVars, parseVars>>
  /\ UNCHANGED servedVars
  /\ UNCHANGED <<breakerVars, callVars, histVars, chatAll>>

\* if (ws.readyState === 1) ws.send(JSON.stringify(chunk))
WsSend ==
  /\ sent < Len(events)
  /\ wsOpen
  /\ sent' = sent + 1
  /\ UNCHANGED <<wsOpen, closedAt>>
  /\ UNCHANGED <<retryVars, parseVars>>
  /\ UNCHANGED servedVars
  /\ UNCHANGED <<breakerVars, callVars, histVars, chatAll>>

\* else break: the for await returns the generator, which closes the
\* stream it is reading, if any, and ends.
WsBreakMutIgnore ==
  /\ sent < Len(events)
  /\ ~wsOpen
  /\ sent' = sent + 1
  /\ UNCHANGED <<wsOpen, closedAt>>
  /\ UNCHANGED <<retryVars, parseVars>>
  /\ UNCHANGED servedVars
  /\ UNCHANGED <<breakerVars, callVars, histVars, chatAll>>
WsBreak ==
  /\ sent < Len(events)
  /\ ~wsOpen
  /\ sent' = Len(events)
  /\ pc' = "end"
  /\ pending' = <<>>
  /\ frames' = <<>>
  /\ readerLock' = IF readerLock = "held" THEN "released" ELSE readerLock
  /\ UNCHANGED <<maxIterations, messages, currentMessages, iterations,
                 toolCallDetected, events, contentBuffer, curAction,
                 toolAttempt, toolWaits, callResp, lastRun, failedAt>>
  /\ UNCHANGED chatHist
  /\ UNCHANGED <<wsOpen, closedAt>>
  /\ UNCHANGED <<retryVars, parseVars>>
  /\ UNCHANGED servedVars
  /\ UNCHANGED <<breakerVars, callVars, histVars>>

NextWs ==
  \/ HandlerIdle /\ TurnBegin
  \/ HandlerIdle /\ LoopExit
  \/ HandlerIdle /\ FetchOk(ChatProc)
  \/ HandlerIdle /\ FetchFailRetry(ChatProc)
  \/ HandlerIdle /\ BackoffDone(ChatProc)
  \/ HandlerIdle /\ FetchFailFinal(ChatProc)
  \/ HandlerIdle /\ StreamOpen
  \/ HandlerIdle /\ StreamFail
  \/ HandlerIdle /\ ReadFrame
  \/ HandlerIdle /\ ReadError
  \/ HandlerIdle /\ Forward
  \/ HandlerIdle /\ ActionKnown
  \/ HandlerIdle /\ ActionUnknown
  \/ HandlerIdle /\ ToolOk
  \/ HandlerIdle /\ ToolFailRetry
  \/ HandlerIdle /\ ToolBackoffDone
  \/ HandlerIdle /\ ToolFailFinal
  \/ HandlerIdle /\ StreamEnd
  \/ HandlerIdle /\ AfterStream
  \/ HandlerIdle /\ PostLoop
  \/ Disconnect
  \/ WsSend
  \/ WsBreak

SpecWs == InitWs /\ [][NextWs]_vars

(* ------------------------------- claims ------------------------------- *)

(* --------------------------- MCPServer alone -------------------------- *)

\* Connection ids, the registries handed to registerTools, the resource
\* lists handed to registerResources, and the names and arguments of tool
\* calls.
ConnIds == {"c1", "c2"}

Registries ==
  { <<>>,
    <<Tool("listFiles", "v1")>>,
    LoadedTools,
    <<Tool("listFiles", "v2")>> }

ResourceLists == { <<>>, <<"a.txt">>, <<"a.txt", "b.txt">> }

CallNames == ToolNames \cup InheritedNames \cup {"nope"}

CallArgs == {Args(PGood), Args(PEmpty), Args(PBadType), Args(PEscape), NoArgs}

restVars ==
  <<breakerVars, callVars, histVars, chatAll, retryVars, parseVars, wsVars,
    sandboxVars, runsVars, lateVars>>

\* mcpServer.initializeConnection(c)
InitializeConnection(c) ==
  /\ connections' = initializeConnection(connections, c)
  /\ mcpResp' = Returned("initialize", c)
  /\ initialized' = initialized \cup {c}
  /\ UNCHANGED <<mcpTools, mcpResources, observed, lastRegistered, lastResources>>
  /\ UNCHANGED toolVars
  /\ UNCHANGED restVars

\* mcpServer.registerTools(reg)
RegisterTools(reg) ==
  /\ registerTools(reg)
  /\ lastRegistered' = reg
  /\ mcpResp' = [Returned("registerTools", "") EXCEPT
                   !.again = (mcpResp.op = "registerTools" /\ reg = lastRegistered)]
  /\ UNCHANGED <<mcpResources, observed, initialized, lastResources>>
  /\ UNCHANGED toolVars
  /\ UNCHANGED restVars

\* mcpServer.registerResources(rl)
RegisterResources(rl) ==
  /\ registerResources(rl)
  /\ lastResources' = rl
  /\ mcpResp' = Returned("registerResources", "")
  /\ UNCHANGED <<mcpTools, observed, initialized, lastRegistered>>
  /\ UNCHANGED toolVars
  /\ UNCHANGED restVars

\* mcpServer.closeConnection(c)
CloseConnection(c) ==
  /\ connections' = closeConnection(connections, c)
  /\ mcpResp' = Returned("close", c)
  /\ initialized' = initialized \ {c}
  /\ UNCHANGED <<mcpTools, mcpResources, observed, lastRegistered, lastResources>>
  /\ UNCHANGED toolVars
  /\ UNCHANGED restVars

\* mcpServer.handleToolsList(c)
HandleToolsList(c) ==
  /\ mcpResp' = handleToolsList(connections, c)
  /\ UNCHANGED <<mcpTools, mcpResources, connections>>
  /\ UNCHANGED mcpHist
  /\ UNCHANGED toolVars
  /\ UNCHANGED restVars

\* mcpServer.handleToolCall(c, { name, arguments: args }, runner)
HandleToolCall(c, name, args) ==
  /\ \E ok \in RunnerOutcomes(name, args) :
       mcpResp' = handleToolCall(connections, c, name, args, ok)
  /\ UNCHANGED <<mcpTools, mcpResources, connections>>
  /\ UNCHANGED mcpHist
  /\ UNCHANGED toolVars
  /\ UNCHANGED restVars

\* A new MCPServer, and the server's registry fully loaded.
InitMcp ==
  /\ InitBase(LMThreshold)
  /\ InitRetryOff
  /\ InitParseOff
  /\ InitWsOff
  /\ InitSandboxOff
  /\ InitRunsOff
  /\ InitLateOff
  /\ tools = LoadedTools
  /\ toLoad = <<>>
  /\ spc = "ready"
  /\ mcpTools = <<>>
  /\ mcpResources = <<>>
  /\ connections = [c \in {} |-> Connection(c)]
  /\ mcpResp = NoMcp
  /\ observed = NoObserved
  /\ initialized = {}
  /\ lastRegistered = <<>>
  /\ lastResources = <<>>

NextMcp ==
  \/ \E c \in ConnIds : InitializeConnection(c)
  \/ \E reg \in Registries : RegisterTools(reg)
  \/ \E rl \in ResourceLists : RegisterResources(rl)
  \/ \E c \in ConnIds : CloseConnection(c)
  \/ \E c \in ConnIds : HandleToolsList(c)
  \/ \E c \in ConnIds, name \in CallNames, args \in CallArgs :
       HandleToolCall(c, name, args)

SpecMcp == InitMcp /\ [][NextMcp]_vars

(* ------------------ the server from start-up onwards ------------------ *)

\* loadTools imports the next module of ./tools (an await); a module that
\* fails to import or exports no name and run is skipped.
LoadTool ==
  /\ spc = "loading"
  /\ toLoad # <<>>
  /\ \E ok \in BOOLEAN :
       tools' = IF ok THEN Append(tools, Tool(Head(toLoad), "v1")) ELSE tools
  /\ toLoad' = Tail(toLoad)
  /\ UNCHANGED spc
  /\ UNCHANGED mcpVars
  /\ UNCHANGED mcpHist
  /\ UNCHANGED restVars

\* loadTools has resolved: mcpServer.registerTools(tools).
StartRegisterTools ==
  /\ spc = "loading"
  /\ toLoad = <<>>
  /\ registerTools(tools)
  /\ lastRegistered' = tools
  /\ mcpResp' = Returned("registerTools", "")
  /\ spc' = "resources"
  /\ UNCHANGED <<tools, toLoad>>
  /\ UNCHANGED <<mcpResources, observed, initialized, lastResources>>
  /\ UNCHANGED restVars

\* fs.readdir(getSandboxRoot()) resolves and the files are registered as
\* resources, or rejects and nothing is registered.
StartRegisterResources ==
  /\ spc = "resources"
  /\ \/ \E rl \in ResourceLists :
          /\ registerResources(rl)
          /\ lastResources' = rl
          /\ mcpResp' = Returned("registerResources", "")
     \/ UNCHANGED <<mcpResources, connections, lastResources, mcpResp>>
  /\ spc' = "ready"
  /\ UNCHANGED <<tools, toLoad>>
  /\ UNCHANGED <<mcpTools, observed, initialized, lastRegistered>>
  /\ UNCHANGED restVars

\* A chat turn builds its system message: toolPrompt() lists Object.values(tools).
ToolPromptRead ==
  /\ observed' = [seen |-> TRUE, keys |-> [i \in DOMAIN tools |-> tools[i].name]]
  /\ UNCHANGED <<initialized, lastRegistered, lastResources>>
  /\ UNCHANGED mcpVars
  /\ UNCHANGED toolVars
  /\ UNCHANGED restVars

\* POST /mcp/initialize
McpInitialize(c) == InitializeConnection(c)

\* POST /mcp/tools/list: ensureConnection, then handleToolsList; an error
\* thrown is answered with status 500.
McpToolsList(c) ==
  /\ connections' = ensureConnection(connections, c)
  /\ mcpResp' = handleToolsList(connections', c)
  /\ UNCHANGED <<mcpTools, mcpResources>>
  /\ UNCHANGED mcpHist
  /\ UNCHANGED toolVars
  /\ UNCHANGED restVars

\* POST /mcp/resources/list
McpResourcesList(c) ==
  /\ connections' = ensureConnection(connections, c)
  /\ mcpResp' = handleResourcesList(connections', c)
  /\ UNCHANGED <<mcpTools, mcpResources>>
  /\ UNCHANGED mcpHist
  /\ UNCHANGED toolVars
  /\ UNCHANGED restVars

\* POST /mcp/tools/call
McpToolsCall(c, name, args) ==
  /\ connections' = ensureConnection(connections, c)
  /\ \E ok \in RunnerOutcomes(name, args) :
       mcpResp' = handleToolCall(connections', c, name, args, ok)
  /\ UNCHANGED <<mcpTools, mcpResources>>
  /\ UNCHANGED mcpHist
  /\ UNCHANGED toolVars
  /\ UNCHANGED restVars

\* startServer has started the HTTP and WebSocket servers and is about to
\* call loadTools; no chat run is modelled.
InitServe ==
  /\ InitRun(LMThreshold, "end")
  /\ NoChatArgs
  /\ InitRetryOff
  /\ InitParseOff
  /\ InitWsOff
  /\ InitSandboxOff
  /\ InitRunsOff
  /\ InitLateOff
  /\ tools = <<>>
  /\ toLoad = ToolFiles
  /\ spc = "loading"
  /\ mcpTools = <<>>
  /\ mcpResources = <<>>
  /\ connections = [c \in {} |-> Connection(c)]
  /\ mcpResp = NoMcp
  /\ observed = NoObserved
  /\ initialized = {}
  /\ lastRegistered = <<>>
  /\ lastResources = <<>>

NextServe ==
  \/ LoadTool
  \/ StartRegisterTools
  \/ StartRegisterResources
  \/ ToolPromptRead
  \/ \E a \in CallNames, p \in {PGood, PEmpty} : PostCall(a, p)
  \/ \E c \in ConnIds : McpInitialize(c)
  \/ \E c \in ConnIds : McpToolsList(c)
  \/ \E c \in ConnIds : McpResourcesList(c)
  \/ \E c \in ConnIds, name \in {"listFiles", "nope"},
        args \in {Args(PGood), Args(PEmpty)} : McpToolsCall(c, name, args)

SpecServe == InitServe /\ [][NextServe]_vars


(* ----------------------- resolveInSandbox on its own ------------------ *)

\* resolveInSandbox is called with every path of at most MaxSegs segments.
MaxSegs == 3

Segments == {Dot, DotDot, NameSandbox, NameSibling, NameEtc}

RECURSIVE SegSeqs(_)
SegSeqs(n) ==
  IF n = 0 THEN {<<>>}
  ELSE LET shorter == SegSeqs(n - 1) IN
    shorter \cup {Append(q, x) : q \in shorter, x \in Segments}

Paths == {[abs |-> a, segs |-> q] : a \in BOOLEAN, q \in SegSeqs(MaxSegs)}

InitSandbox ==
  /\ InitBase(LMThreshold)
  /\ InitRetryOff
  /\ InitParseOff
  /\ InitWsOff
  /\ InitServed
  /\ InitRunsOff
  /\ InitLateOff
  /\ sbpc = "call"
  /\ sbPath \in Paths
  /\ sbResult = NoPath

ResolveCall ==
  /\ sbpc = "call"
  /\ sbResult' = resolveInSandbox(sbPath)
  /\ sbpc' = "done"
  /\ UNCHANGED sbPath
  /\ UNCHANGED <<breakerVars, callVars, histVars, chatAll, retryVars, parseVars,
                 wsVars, toolVars, mcpVars, mcpHist, runsVars, lateVars>>

NextSandbox == ResolveCall

SpecSandbox == InitSandbox /\ [][NextSandbox]_vars


(* ------------------ chatWithTools runs in flight together ------------- *)

\* `[...messages]` makes a new array: the one of run r.
SpreadCopyMutAlias(r) == CallerArray
SpreadCopy(r) == r

\* The other fields of the module state.
notRunsVars ==
  <<breakerVars, callVars, histVars, chatAll, retryVars, parseVars, wsVars,
    toolVars, mcpVars, mcpHist, sandboxVars, lateVars>>

\* chatWithTools(messages) is called: currentMessages = [...messages],
\* iterations = 0.
RunCall(r) ==
  /\ runPc[r] = "off"
  /\ heap' = [heap EXCEPT ![SpreadCopy(r)] = heap[CallerArray]]
  /\ runArr' = [runArr EXCEPT ![r] = SpreadCopy(r)]
  /\ runIter' = [runIter EXCEPT ![r] = 0]
  /\ runPc' = [runPc EXCEPT ![r] = "loop"]
  /\ UNCHANGED runSent
  /\ UNCHANGED notRunsVars

\* A turn begins: mergedMessages = [systemMessage, ...currentMessages] is
\* sent upstream.
RunTurn(r) ==
  /\ runPc[r] = "loop"
  /\ LoopCond(runIter[r], MaxIter)
  /\ runSent' = [runSent EXCEPT ![r] = heap[runArr[r]]]
  /\ runPc' = [runPc EXCEPT ![r] = "stream"]
  /\ UNCHANGED <<heap, runArr, runIter>>
  /\ UNCHANGED notRunsVars

\* The turn's tool execution succeeded: the two messages are pushed onto
\* currentMessages, and iterations++. The result text names the run.
RunToolOk(r, inv) ==
  /\ runPc[r] = "stream"
  /\ heap' = [heap EXCEPT ![runArr[r]] = @ \o ToolMessages(inv, r)]
  /\ runIter' = [runIter EXCEPT ![r] = @ + 1]
  /\ runPc' = [runPc EXCEPT ![r] = "loop"]
  /\ UNCHANGED <<runArr, runSent>>
  /\ UNCHANGED notRunsVars

\* The turn's tool execution failed or the tool is unknown: nothing is
\* pushed, and iterations++.
RunToolFail(r) ==
  /\ runPc[r] = "stream"
  /\ runIter' = [runIter EXCEPT ![r] = @ + 1]
  /\ runPc' = [runPc EXCEPT ![r] = "loop"]
  /\ UNCHANGED <<heap, runArr, runSent>>
  /\ UNCHANGED notRunsVars

\* The turn brought no action, or the loop condition fails: the run ends.
RunEnd(r) ==
  /\ \/ runPc[r] = "stream"
     \/ runPc[r] = "loop" /\ ~LoopCond(runIter[r], MaxIter)
  /\ runPc' = [runPc EXCEPT ![r] = "end"]
  /\ UNCHANGED <<heap, runArr, runIter, runSent>>
  /\ UNCHANGED notRunsVars

InitRuns ==
  /\ InitBase(LMThreshold)
  /\ InitRetryOff
  /\ InitParseOff
  /\ InitWsOff
  /\ InitServed
  /\ InitSandboxOff
  /\ InitRunsOff
  /\ InitLateOff

NextRuns ==
  \/ \E r \in Runs : RunCall(r)
  \/ \E r \in Runs : RunTurn(r)
  \/ \E r \in Runs, inv \in {[action |-> "listFiles", params |-> PGood]} :
       RunToolOk(r, inv)
  \/ \E r \in Runs : RunToolFail(r)
  \/ \E r \in Runs : RunEnd(r)

SpecRuns == InitRuns /\ [][NextRuns]_vars


Last(s) == s[Len(s)]

IsWarning(e) == e = MaxIterationsChunk

\* C1: one run of chatWithTools makes at most maxIterations upstream model
\* calls and at most maxIterations tool executions; the ceiling warning is
\* emitted exactly when every one of the maxIterations turns requested a
\* tool, it is the run's last event, and no turn starts after it.
C1_IterationCeiling ==
  /\ turns <= maxIterations
  /\ toolExecs <= maxIterations
  /\ Len(SelectSeq(events, IsWarning)) <= 1
  /\ (SelectSeq(events, IsWarning) # <<>>) =>
       /\ pc = "end"
       /\ actionTurns = maxIterations
       /\ turns = maxIterations
       /\ Last(events) = MaxIterationsChunk
  /\ (pc = "end" /\ actionTurns = maxIterations) =>
       /\ events # <<>>
       /\ Last(events) = MaxIterationsChunk

\* With maxIterations = 2 and a tool call in both turns: two executions, the
\* warning, the end.
C1_Witness ==
  /\ pc = "end"
  /\ maxIterations = 2
  /\ turns = 2
  /\ toolExecs = 2
  /\ events # <<>>
  /\ Last(events) = MaxIterationsChunk

\* C2: the event sequence of every finished chatWithTools run ends with a
\* done event, whatever ended the run (stated for the runs that made at least
\* one turn, as every cause the claim lists does).
C2_EndsWithDone ==
  (pc = "end" /\ turns >= 1) => (events # <<>> /\ Last(events) = DoneEvent)

\* The tool calls the reply of the current turn holds.
ReplyActions == parseMultipleJSONObjects(ConcatDeltas(reply))

\* C3: when the stream of a turn holds two or more complete tool calls and
\* the loop has received them, it has handled every one of them, in order,
\* by the end of that iteration.
C3_AllActionsExecuted ==
  (pc = "afterstream" /\ handled # <<>> /\ Len(ReplyActions) >= 2)
    => handled = ReplyActions

\* C4: every finished tool execution, successful or failed, has appended
\* exactly two messages: the assistant message with the JSON of the action,
\* then the message with the result or the formatted error.
C4_TwoMessagesPerExecution ==
  /\ Len(currentMessages) = Len(messages) + 2 * toolDone
  /\ (pc = "afterstream" /\ handled # <<>> /\ ToolLookup(handled[1].action)) =>
       /\ currentMessages[Len(currentMessages) - 1] = AssistantMessage(curAction)
       /\ currentMessages[Len(currentMessages)].content.k = "toolResult"

\* C5: run() is invoked, by chatWithTools or POST /call, only for a
\* registered tool with params that satisfy its schema.
C5_RunOnlyValidated ==
  lastRun.via # "none" =>
    /\ lastRun.action \in ToolNames
    /\ validateToolParameters(ToolSchema(lastRun.action), lastRun.params)

\* C6: with calls run one at a time, the breaker is CLOSED while fewer than
\* threshold consecutive operations have failed, failures counts exactly the
\* failures since the last success (a success resets it to 0), and once the
\* threshold-th consecutive failure is recorded the state is OPEN.
C6_OpensAtThreshold ==
  /\ failures = consec
  /\ consec < threshold => state = "CLOSED"
  /\ consec >= threshold => state # "CLOSED"
  /\ (consec >= threshold /\ \A q \in Procs : cpc[q] \in {"idle", "returned"})
       => state = "OPEN"

\* Threshold 3: the third consecutive failure has opened the breaker.
C6_Witness ==
  /\ threshold = 3
  /\ consec = 3
  /\ failures = 3
  /\ state = "OPEN"
  /\ lastEnd.outcome = "failure"

\* The operation of p's execute() call is invoked for the first time.
Admitted(p) == cpc[p] = "idle" /\ cpc'[p] = "fetch"

\* C7: no execute() call that begins within the cooldown after the breaker's
\* last transition to OPEN invokes its operation.
C7_NoAdmissionDuringCooldown ==
  [][\A p \in Procs :
       Admitted(p) => (openedAt = -1 \/ now - openedAt > Timeout)]_vars

\* C8: while the probe is in flight (state HALF_OPEN), no other execute()
\* call invokes its operation.
C8_SingleProbe ==
  [][\A p \in Procs : Admitted(p) => state # "HALF_OPEN"]_vars

C10_OpenRejectsFast ==
  [][\A p \in Procs :
       (/\ cpc[p] = "idle" /\ cpc'[p] # "idle"
        /\ state = "OPEN" /\ now - lastFailureTime <= Timeout) =>
         /\ cpc'[p] = "returned"
         /\ res'[p].kind = "CircuitOpen"
         /\ res'[p].a * 1000 >= Timeout - (now - lastFailureTime)
         /\ (res'[p].a - 1) * 1000 < Timeout - (now - lastFailureTime)
         /\ nOps'[p] = 0
         /\ attempt'[p] = 0
         /\ waits'[p] = <<>>
         /\ UNCHANGED <<state, failures, lastFailureTime>>]_vars

\* A call made exactly timeout ms after the last failure has been rejected.
C10_Witness ==
  \E p \in Procs :
    /\ cpc[p] = "returned"
    /\ res[p].kind = "CircuitOpen"
    /\ res[p].a = 0
    /\ state = "OPEN"
    /\ now - lastFailureTime = Timeout

\* The invocations of the operation withRetry has made so far.
Invocations == Len(rOps) + (IF rpc = "await" THEN 1 ELSE 0)

\* C11: withRetry invokes the operation at most maxRetries + 1 times, with
\* exactly one backoff wait between two consecutive invocations; no
\* invocation follows a success, whose value is returned; after
\* maxRetries + 1 failures it throws a RetryError wrapping the last error.
C11_WithRetryBounded ==
  /\ Invocations <= rOptions.maxRetries + 1
  /\ Invocations = Len(rWaits) + (IF rpc = "wait" THEN 0 ELSE 1)
  /\ \A i \in 1..Len(rWaits) : rWaits[i].after = i
  /\ \A i \in 1..Len(rOps) : rOps[i].ok => i = Len(rOps) /\ rpc = "done"
  /\ rpc = "done" =>
       IF rOps[Len(rOps)].ok
         THEN rResult = [kind |-> "value", v |-> rOps[Len(rOps)].v]
         ELSE /\ Len(rOps) = rOptions.maxRetries + 1
              /\ rResult.kind = "RetryError"
              /\ rResult.originalError = rOps[Len(rOps)].v
              /\ rResult.error.a = rOptions.maxRetries
              /\ rResult.error.b = rOptions.maxRetries

\* With maxRetries = 2, three invocations failed, the last one with another
\* error than the one before, and RetryError wraps the last error.
C11_Witness ==
  /\ rpc = "done"
  /\ rOptions.maxRetries = 2
  /\ Len(rOps) = 3
  /\ Len(rWaits) = 2
  /\ rOps[2].v = "e1"
  /\ rOps[3].v = "e2"
  /\ rResult.kind = "RetryError"
  /\ rResult.originalError = "e2"

\* The tool executor fails with the sandbox violation 'Path escapes sandbox'.
FailsUnretryable(inv) ==
  /\ ToolLookup(inv.action)
  /\ RunMustThrow(inv)
  /\ RunErrors(inv) = {"SandboxViolation"}

\* C12: a tool execution that fails with a sandbox violation (the case
\* checked here) or a parameter validation error is not retried: run() is
\* invoked once for that action and no backoff is waited.
C12_NoRetryOfSandboxViolation ==
  (pc \in {"tool", "toolwait", "afterstream"} /\ FailsUnretryable(curAction)) =>
    (toolAttempt = 1 /\ toolWaits = <<>>)

\* C13: once the upstream call of a turn has failed, streamLMStudio yields
\* one error event and ends; chatWithTools forwards that event as the run's
\* last one, starts no further upstream call and executes no tool.
C13_UpstreamFailureEndsRun ==
  failedAt # NoFail =>
    /\ turns = failedAt.turns
    /\ toolExecs = failedAt.toolExecs
    /\ pc \in {"stream", "afterstream", "post", "end"}
    /\ frames = <<>>
    /\ Len(events) + Len(pending) = failedAt.events + 1
    /\ \A i \in 1..Len(pending) : pending[i].type = "error"
    /\ Len(events) > failedAt.events => events[Len(events)].type = "error"
    /\ pc \in {"afterstream", "post", "end"} =>
         /\ Len(events) = failedAt.events + 1
         /\ ~toolCallDetected

\* The second turn's upstream call failed after a tool execution, and the
\* run has ended with the error event.
C13_Witness ==
  /\ pc = "end"
  /\ failedAt # NoFail
  /\ failedAt.turns = 2
  /\ failedAt.toolExecs = 1
  /\ events[Len(events)].type = "error"

\* A complete, well-formed tool-call object starts at index i of text.
IsObjAt(text, i) ==
  /\ i + 5 <= Len(text)
  /\ text[i] = LB /\ text[i + 1].k = "act" /\ text[i + 2] = LB
  /\ text[i + 3].k = "par" /\ text[i + 4] = RB /\ text[i + 5] = RB

\* The invocations of the tool-call objects embedded in text, left to right.
RECURSIVE EmbeddedFrom(_, _)
EmbeddedFrom(text, i) ==
  IF i > Len(text) THEN <<>>
  ELSE IF IsObjAt(text, i)
    THEN <<[action |-> text[i + 1].action, params |-> text[i + 3].params]>>
         \o EmbeddedFrom(text, i + 6)
  ELSE EmbeddedFrom(text, i + 1)

\* C14: parseMultipleJSONObjects returns exactly the invocations of the
\* complete tool-call objects embedded in the text, in order, whatever
\* narration surrounds or separates them.
C14_ExtractsEveryObject ==
  ppc = "done" => pResult = EmbeddedFrom(pText, 1)

\* The events streamLMStudio has yielded or is about to yield.
Emitted == events \o pending

IsActionEvent(e) == e.type = "action"
IsChunkEvent(e) == e.type = "chunk"
IsDoneEvent(e) == e.type = "done"

NotBlank(text) == SelectSeq(text, NotWS) # <<>>

\* The frames of the body read so far.
Consumed == Len(reply) - Len(frames)

\* The text the model streams in this body.
ReplyText == ConcatDeltas(reply)

C16_KeepsTextAfterObject ==
  (/\ pc = "end"
   /\ failedAt = NoFail
   /\ Len(EmbeddedFrom(ReplyText, 1)) * 6 = Len(ReplyText)) =>
    LET objs == EmbeddedFrom(ReplyText, 1) IN
      SelectSeq(events, IsActionEvent) =
        [i \in 1..Len(objs) |-> ActionEvent(objs[i])]

C18_StreamAbandonedAfterAction ==
  handled # <<>> =>
    /\ Len(handled) = 1
    /\ pc \notin {"stream", "upstream"}
    /\ cpc[ChatProc] = "idle"
    /\ pc \in {"afterstream", "loop", "post", "end"} =>
         /\ pending = <<>>
         /\ frames = <<>>
         /\ readerLock = "released"

\* A turn whose stream held two tool calls: the first was handled and the
\* stream was closed.
C18_Witness ==
  /\ pc = "afterstream"
  /\ Len(ReplyActions) = 2
  /\ handled = <<ReplyActions[1]>>
  /\ toolDone = 1
  /\ readerLock = "released"

\* C19: at most one tool execution of the run is in progress, only while the
\* loop awaits it, and no upstream call is in flight or begun until it has
\* resolved.
C19_OneToolAtATime ==
  /\ toolExecs - toolDone \in {0, 1}
  /\ toolExecs - toolDone = 1 <=> pc \in {"tool", "toolwait"}
  /\ pc \in {"tool", "toolwait"} => cpc[ChatProc] = "idle"
  /\ cpc[ChatProc] # "idle" => toolExecs = toolDone

\* The second upstream call is in flight, after the first turn's tool
\* execution failed for good.
C19_Witness ==
  /\ pc = "upstream"
  /\ cpc[ChatProc] = "fetch"
  /\ turns = 2
  /\ toolExecs = 1
  /\ toolDone = 1
  /\ toolAttempt = 3

\* C20: after the WebSocket client has disconnected the run starts no
\* further upstream model call; a tool execution in flight at that moment
\* runs to its end, and no execution the run started is left unfinished.
C20_NoUpstreamCallAfterDisconnect ==
  ~wsOpen =>
    /\ turns = closedAt.turns
    /\ toolDone <= toolExecs
    /\ pc = "end" => toolDone = toolExecs
    /\ (closedAt.toolExecs > closedAt.toolDone /\ pc = "end") =>
         toolDone > closedAt.toolDone

\* The client disconnected during the first turn's tool execution; the
\* execution finished and the run ended without a second upstream call.
C20_Witness ==
  /\ ~wsOpen
  /\ pc = "end"
  /\ closedAt = [turns |-> 1, toolExecs |-> 1, toolDone |-> 0]
  /\ toolDone = 1
  /\ turns = 1
  /\ iterations < maxIterations

\* C21: the loop's conversation only grows by appending. A step that changes
\* it keeps every entry it had, in place, and adds exactly the assistant
\* message recording the invocation that was run followed by that
\* invocation's tool result message; so every tool result message stands
\* right after the assistant message of the action which produced it.
IsToolResult(m) == m.role = "user" /\ m.content.k = "toolResult"

IsAssistantAction(m) == m.role = "assistant" /\ m.content.k = "json"

ToolResultsPaired(ms) ==
  \A i \in 1..Len(ms) :
    IsToolResult(ms[i]) =>
      /\ i > 1
      /\ IsAssistantAction(ms[i - 1])
      /\ ms[i - 1].content.action \in ToolNames

AppendsToolPair ==
  currentMessages' # currentMessages =>
    /\ Len(currentMessages') = Len(currentMessages) + 2
    /\ SubSeq(currentMessages', 1, Len(currentMessages)) = currentMessages
    /\ currentMessages'[Len(currentMessages) + 1] = AssistantMessage(lastRun)
    /\ IsToolResult(currentMessages'[Len(currentMessages) + 2])
    /\ lastRun.via = "chat"

C21_ConversationAppendOnly ==
  /\ []ToolResultsPaired(currentMessages)
  /\ [][AppendsToolPair]_vars

\* A run whose two turns each executed a tool: the caller's message is
\* followed by two assistant / tool result pairs.
C21_Witness ==
  /\ messages = <<UserMessage>>
  /\ Len(currentMessages) = 5
  /\ IsAssistantAction(currentMessages[2]) /\ IsToolResult(currentMessages[3])
  /\ IsAssistantAction(currentMessages[4]) /\ IsToolResult(currentMessages[5])
  /\ toolDone >= 2

\* C22: for an action name that is not in the tool catalog no executor is
\* invoked: chatWithTools starts no tool execution for it and emits the
\* error event that names the available tools, POST /call answers
\* 400 'Unknown tool', and handleToolCall fails with "Tool '<name>' not
\* found" without calling the tool runner.
NotInCatalog(a) == a \notin ToolKeys(tools)

NotInConnectionCatalog(c, a) ==
  c \in DOMAIN connections /\ FindTool(connections[c].tools, a) = <<>>

C22_UnknownToolNeverDispatched ==
  /\ (handled # <<>> /\ NotInCatalog(handled[1].action)) =>
       /\ pc \notin {"tool", "toolwait"}
       /\ pc = "afterstream" =>
            Last(events) = ErrorEvent(UnknownToolError(handled[1].action))
  /\ (callResp.status # 0 /\ NotInCatalog(callResp.action)) =>
       /\ callResp.status = 400
       /\ callResp.body = "Unknown tool"
  /\ (mcpResp.op = "tools/call"
        /\ NotInConnectionCatalog(mcpResp.conn, mcpResp.name)) =>
       /\ mcpResp.threw = "Tool not found"
       /\ ~mcpResp.ran
  /\ lastRun.via # "none" => lastRun.action \in ToolNames

\* C23: a handleToolCall for a tool registered on an existing connection
\* never throws. With a required argument missing or a supplied argument
\* of another primitive type than declared, the runner is not invoked and
\* the result is one text item with isError true; when the runner is
\* invoked isError tells whether it threw, and a result that is no error
\* carries the runner's result.
MissingRequired(tool, args) ==
  \/ ~args.given
  \/ \E f \in tool.inputSchema.required : \A kv \in args.params : kv[1] # f

TypeMismatch(tool, args) ==
  /\ args.given
  /\ \E kv \in args.params, prop \in tool.inputSchema.properties :
       prop[1] = kv[1] /\ prop[2] # TypeOf(kv[2])

CalledRegisteredTool ==
  /\ mcpResp.op = "tools/call"
  /\ mcpResp.conn \in DOMAIN connections
  /\ FindTool(connections[mcpResp.conn].tools, mcpResp.name) # <<>>

C23_ToolCallNeverThrows ==
  CalledRegisteredTool =>
    LET tool == Head(FindTool(connections[mcpResp.conn].tools, mcpResp.name))
        invalid == MissingRequired(tool, mcpResp.args)
                     \/ TypeMismatch(tool, mcpResp.args)
        runnerThrows == RunMustThrow([action |-> mcpResp.name,
                                      params |-> mcpResp.args.params])
    IN /\ mcpResp.threw = ""
       /\ invalid =>
            /\ ~mcpResp.ran
            /\ mcpResp.isError
            /\ mcpResp.text = "Tool execution failed"
       /\ ~invalid => mcpResp.ran
       /\ (~invalid /\ runnerThrows) => mcpResp.isError
       /\ (~invalid /\ ~RunMayThrow(mcpResp.name)) => ~mcpResp.isError
       /\ ~mcpResp.isError => mcpResp.text = "result"

\* listFiles was called with a number for its string parameter path: the
\* runner was not invoked and the call returned an error result.
C23_Witness ==
  /\ CalledRegisteredTool
  /\ mcpResp.name = "listFiles"
  /\ mcpResp.args = Args(PBadType)
  /\ mcpResp.isError
  /\ ~mcpResp.ran
  /\ mcpResp.threw = ""

\* C24: resolveInSandbox(p) throws 'Path escapes sandbox' or returns an
\* absolute path that is the sandbox root or lies inside the sandbox root
\* directory; '../../etc' is rejected.
InsideRoot(target) ==
  /\ Len(target) >= Len(SANDBOX_ROOT)
  /\ SubSeq(target, 1, Len(SANDBOX_ROOT)) = SANDBOX_ROOT

C24_NeverOutsideSandbox ==
  sbpc = "done" =>
    /\ sbResult.threw \/ InsideRoot(sbResult.path)
    /\ sbPath = [abs |-> FALSE, segs |-> <<DotDot, DotDot, NameEtc>>] =>
         sbResult.threw

\* C25: a reader that runs while the tools are loaded or registered sees
\* the catalog as it was before (empty at start-up) or the complete new
\* catalog: the tools a chat turn's system message listed, and the tools a
\* tools/list request returned, are never only some of the tools loaded.
ToolKeySeq(reg) == [i \in DOMAIN reg |-> reg[i].name]

C25_CatalogObservedWhole ==
  /\ (observed.seen /\ spc # "loading") =>
       observed.keys \in {<<>>, ToolKeySeq(tools)}
  /\ (mcpResp.op = "tools/list" /\ mcpResp.threw = "") =>
       mcpResp.list \in {<<>>, Catalog(lastRegistered)}

\* C26: after any sequence of initializeConnection, registerTools,
\* registerResources and closeConnection calls every open connection's
\* tools are the most recently registered catalog in full and its resources
\* the most recently registered list, whether the connection was
\* initialized before or after that registration; no tool of an earlier
\* registration remains.
C26_ConnectionsHoldLatestCatalog ==
  \A c \in DOMAIN connections :
    /\ Len(connections[c].tools) = Len(lastRegistered)
    /\ \A i \in DOMAIN lastRegistered :
         /\ connections[c].tools[i].name = lastRegistered[i].name
         /\ connections[c].tools[i].description = lastRegistered[i].description
         /\ connections[c].tools[i].inputSchema.properties =
              lastRegistered[i].schema.properties
         /\ connections[c].tools[i].inputSchema.required =
              lastRegistered[i].schema.required
    /\ connections[c].resources = lastResources

\* Both connections are open, one initialized before and one after the
\* registration that replaced a two-tool catalog by a one-tool catalog.
C26_Witness ==
  /\ DOMAIN connections = ConnIds
  /\ lastRegistered = <<Tool("listFiles", "v2")>>
  /\ mcpResp = Returned("initialize", "c2")
  /\ lastResources # <<>>
  /\ \A c \in ConnIds : Len(connections[c].tools) = 1

\* C27: registering the catalog that was registered by the call before
\* leaves the server catalog and every connection's catalog as they were
\* after the first registration, each tool name exactly once.
NamesOnce(ts) ==
  \A i, j \in DOMAIN ts : ts[i].name = ts[j].name => i = j

RegisteredAgain == mcpResp.op = "registerTools" /\ mcpResp.again

C27_RegisterTwiceIdempotent ==
  /\ [](RegisteredAgain => NamesOnce(mcpTools))
  /\ [][RegisteredAgain' => (mcpTools' = mcpTools /\ connections' = connections)]_vars

\* The two-tool catalog has been registered twice in a row while a
\* connection was open.
C27_Witness ==
  /\ RegisteredAgain
  /\ lastRegistered = LoadedTools
  /\ connections # [c \in {} |-> Connection(c)]
  /\ Len(mcpTools) = 2

\* C28: the connection table holds an entry for an id only if an initialize
\* request was made for it and it was not closed since; a tools/list,
\* tools/call or resources/list request for an id without entry fails with
\* 'Connection not found' and creates no entry.
IsConnectionRequest ==
  mcpResp.op \in {"tools/list", "tools/call", "resources/list"}

C28_EntriesOnlyByInitialize ==
  /\ DOMAIN connections \subseteq initialized
  /\ (IsConnectionRequest /\ mcpResp.conn \notin initialized) =>
       mcpResp.threw = "Connection not found"

\* C29: under every interleaving of concurrent execute() calls, the step in
\* which a call that invoked its operation ends applies exactly one outcome
\* transition to the breaker, whole: onSuccess for a call that returns,
\* onFailure for a call that throws; no other step changes the failure
\* counter, and the counter equals the number of failures recorded since
\* the last success (no update is lost).
EndsCall(p) == cpc[p] = "fetch" /\ cpc'[p] = "returned"

OneOutcomePerCall ==
  /\ \A p \in Procs :
       EndsCall(p) =>
         \/ /\ res'[p] = OkResult
            /\ Breaker' = onSuccess(Breaker)
         \/ /\ res'[p] # OkResult
            /\ Breaker' = onFailure(Breaker, now, threshold)
  /\ (\A p \in Procs : ~EndsCall(p)) => failures' = failures
  /\ Cardinality({p \in Procs : EndsCall(p)}) <= 1

C29_AtomicOutcomePerCall ==
  /\ [](failures = consec)
  /\ [][OneOutcomePerCall]_vars

\* Calls in flight together have failed one after the other: more failures
\* than the threshold are counted, none lost.
C29_Witness ==
  /\ failures = LMThreshold + 1
  /\ consec = LMThreshold + 1
  /\ state = "OPEN"
  /\ \E p \in Procs : cpc[p] = "returned" /\ res[p].kind = "RetryError"

\* C30: chatWithTools never modifies the array its caller passed, and of
\* runs in flight together, started from the same array, each appends tool
\* messages to its own conversation only: what a run sends upstream holds
\* no message another run appended.
OwnToolResultsOnly(ms, r) ==
  \A i \in DOMAIN ms : IsToolResult(ms[i]) => ms[i].content.result = r

C30_CallerArrayUntouched ==
  /\ heap[CallerArray] = <<UserMessage>>
  /\ \A r \in Runs :
       /\ OwnToolResultsOnly(runSent[r], r)
       /\ runPc[r] # "off" =>
            /\ runArr[r] # CallerArray
            /\ OwnToolResultsOnly(heap[runArr[r]], r)
       /\ \A q \in Runs :
            (q # r /\ runPc[r] # "off" /\ runPc[q] # "off") =>
              runArr[q] # runArr[r]

\* Two runs started from the same array have each pushed a tool result and
\* then sent their conversation upstream again.
C30_Witness ==
  /\ \A r \in {1, 2} :
       /\ runPc[r] = "stream"
       /\ runIter[r] = 1
       /\ Len(runSent[r]) = 3
       /\ runSent[r][3].content.result = r
  /\ heap[CallerArray] = <<UserMessage>>

(* ---------------------- termination of chatWithTools ------------------ *)

\* The run of SpecChat where every awaited promise settles: the upstream
\* fetch, each backoff timer, each reader.read() and each tool.run() resolve
\* or reject, so the generator's next continuation is eventually run. The
\* run is the one a request starts: chatWithTools over its user message.
InitChatLive == InitChat /\ messages = <<UserMessage>>

SpecChatLive == InitChatLive /\ [][NextChat]_vars /\ WF_vars(NextChat)

\* Lexicographic order on sequences of the same length.
LexLess(a, b) ==
  \E i \in 1..Len(a) :
    /\ a[i] < b[i]
    /\ \A j \in 1..(i - 1) : a[j] = b[j]

\* What is left of withRetry at attempt a under options o: two steps (the
\* rejection, the timer) for each retry that remains.
RetryLeft(a, o, invoked) ==
  2 * (o.maxRetries + 1 - a) + (IF invoked THEN 1 ELSE 0)

\* What is left of the run: turns the while condition still allows, the
\* position within the turn, and what is left of that position's work.
Variant ==
  <<IF pc = "end" THEN 0 ELSE IF pc = "post" THEN 1 ELSE 2,
    IF pc \in {"post", "end"} THEN 0 ELSE maxIterations - iterations,
    CASE pc = "loop" -> 5
      [] pc = "upstream" -> 4
      [] pc = "stream" -> 3
      [] pc \in {"tool", "toolwait"} -> 2
      [] pc = "afterstream" -> 1
      [] OTHER -> 0,
    CASE pc = "upstream" /\ cpc[ChatProc] # "returned" ->
           1 + RetryLeft(attempt[ChatProc], lmStudioRetryOptions,
                         cpc[ChatProc] = "fetch")
      [] pc = "stream" -> Len(frames)
      [] pc \in {"tool", "toolwait"} ->
           RetryLeft(toolAttempt, toolRetryOptions, pc = "tool")
      [] OTHER -> 0,
    IF pc = "stream" THEN Len(pending) ELSE 0>>

\* C31: every chatWithTools run terminates. Each step of the run makes the
\* variant, a tuple of natural numbers, lexicographically smaller, and when
\* every awaited stream read and tool execution settles the run reaches its
\* end, for every model reply and every maxIterations.
C31_Terminates ==
  /\ [](\A i \in 1..Len(Variant) : Variant[i] \in Nat)
  /\ [][LexLess(Variant', Variant)]_vars
  /\ <>(pc = "end")

\* A run that used every turn, whose last tool execution failed after both
\* retries and whose upstream call was itself retried, has ended.
C31_Witness ==
  /\ pc = "end"
  /\ maxIterations = MaxIter
  /\ iterations = MaxIter
  /\ Len(toolWaits) = toolRetryOptions.maxRetries
  /\ Len(waits[ChatProc]) > 0


(* --------------------------- the retry waits -------------------------- *)

\* The waits withRetry has made so far, in milliseconds.
Delays == [k \in 1..Len(rWaits) |-> rWaits[k].delay]

IsPrefix(a, b) == Len(a) <= Len(b) /\ \A k \in 1..Len(a) : a[k] = b[k]

\* C32: the wait before the k-th retry of withRetry is
\* min(baseDelay * backoffMultiplier^(k-1), maxDelay); the waits are
\* non-decreasing, never above maxDelay, and at most maxRetries are made.
\* Under the tool policy (2 retries, 500 ms, cap 2000 ms, multiplier 2) the
\* waits are 500 ms then 1000 ms and the operation is invoked at most 3 times.
C32_RetryWaits ==
  /\ Len(rWaits) <= rOptions.maxRetries
  /\ \A k \in 1..Len(rWaits) :
       /\ Delays[k] =
            Min(rOptions.baseDelay * Pow(rOptions.backoffMultiplier, k - 1),
                rOptions.maxDelay)
       /\ Delays[k] <= rOptions.maxDelay
       /\ k > 1 => Delays[k - 1] <= Delays[k]
  /\ rOptions = toolRetryOptions =>
       /\ IsPrefix(Delays, <<500, 1000>>)
       /\ Len(rOps) <= 3

\* The tool policy's call failed three times: it waited 500 ms, then 1000 ms.
C32_Witness ==
  /\ rOptions = toolRetryOptions
  /\ rpc = "done"
  /\ Len(rOps) = 3
  /\ ~rOps[3].ok
  /\ Delays = <<500, 1000>>


(* ------------------- action events in the chat stream ----------------- *)

\* The positions of the action events among the events the run has yielded,
\* which the SSE endpoint enqueues one by one.
ActionEventsAt == {j \in 1..Len(events) : events[j].type = "action"}

IsToolExecutedChunk(e) == e.type = "chunk" /\ e.data.k = "toolExecuted"

\* C33: in the events the client of the streaming chat endpoint receives,
\* each tool invocation the loop executed is represented by one action event
\* carrying the invocation, and that event precedes the chunks reporting the
\* tool's result.
C33_ActionEventPerInvocation ==
  /\ Cardinality(ActionEventsAt) = toolExecs
  /\ \A i \in 1..Len(events) :
       IsToolExecutedChunk(events[i]) =>
         \E j \in ActionEventsAt :
           /\ j < i
           /\ events[j].data.action = events[i].data.action


(* ----------------------------- rateLimit ------------------------------ *)

\* config.rateLimit.max (100 by default): the model's limit.
RateLimitMax == 2

\* config.rateLimit.windowMs (default).
WindowMs == 60000

\* The entries the cleanup loop keeps at time t: `value.reset < now` deletes.
Cleanup(m, t) ==
  [k \in {k \in DOMAIN m : ~(m[k].reset < t)} |-> m[k]]

\* rateLimits.get(ip) || { count: 0, reset: now + windowMs }
CurrentEntry(m, ip, t) ==
  IF ip \in DOMAIN m THEN m[ip] ELSE [count |-> 0, reset |-> t + WindowMs]

\* current.count >= config.rateLimit.max
LimitReachedMutGt(current) == current.count > RateLimitMax
LimitReached(current) == current.count >= RateLimitMax

\* rateLimits.set(ip, v)
MapSet(m, ip, v) == [k \in DOMAIN m \cup {ip} |-> IF k = ip THEN v ELSE m[k]]

\* A request of client ip passes through the rateLimit middleware, which has
\* no await before it answers 429 or calls next().
RateLimitRequest(ip) ==
  /\ LET live == Cleanup(rateLimits, now)
         current == CurrentEntry(live, ip, now)
         fresh == ip \notin DOMAIN live
     IN IF LimitReached(current)
          THEN /\ rateLimits' = live
               /\ rlResp' = [ip |-> ip, status |-> 429,
                             retryAfter |-> CeilDiv(current.reset - now, 1000),
                             next |-> FALSE, at |-> now]
               /\ UNCHANGED <<admitted, windowEnd>>
          ELSE /\ rateLimits' =
                    MapSet(live, ip, [count |-> current.count + 1,
                                      reset |-> current.reset])
               /\ rlResp' = [ip |-> ip, status |-> 0, retryAfter |-> 0,
                             next |-> TRUE, at |-> now]
               /\ admitted' = [admitted EXCEPT
                                 ![ip] = IF fresh THEN 1 ELSE @ + 1]
               /\ windowEnd' = [windowEnd EXCEPT ![ip] = current.reset]
  /\ UNCHANGED <<breakerVars, callVars, histVars, chatAll>>
  /\ UNCHANGED <<retryVars, parseVars, wsVars>>
  /\ UNCHANGED <<toolVars, mcpVars, mcpHist, sandboxVars, runsVars>>
  /\ UNCHANGED <<rpcVars, plainVars, readVars>>

InitRate ==
  /\ InitBase(LMThreshold)
  /\ InitRetryOff
  /\ InitParseOff
  /\ InitWsOff
  /\ InitServed
  /\ InitSandboxOff
  /\ InitRunsOff
  /\ InitLateOff

NextRate ==
  \/ Tick
  \/ \E ip \in IPs : RateLimitRequest(ip)

SpecRate == InitRate /\ [][NextRate]_vars

\* The step is a request of client ip handled by the middleware.
IsRequestOf(ip) == rlResp' # rlResp /\ rlResp'.ip = ip

\* C34: per client IP at most rateLimit.max requests are admitted between
\* the creation of its window entry and the entry's reset time; a further
\* request in the window is answered 429 with retryAfter, is not passed to
\* the next handler and leaves the counter as it was; a request after the
\* reset time starts a fresh window, counted from 0.
C34_AtMostMaxPerWindow ==
  /\ [](\A ip \in IPs :
          /\ admitted[ip] <= RateLimitMax
          /\ ip \in DOMAIN rateLimits =>
               /\ rateLimits[ip].count = admitted[ip]
               /\ rateLimits[ip].reset = windowEnd[ip])
  /\ [][\A ip \in IPs : IsRequestOf(ip) =>
          LET inWindow == admitted[ip] > 0 /\ now <= windowEnd[ip]
          IN /\ inWindow /\ admitted[ip] >= RateLimitMax =>
                  /\ rlResp'.status = 429
                  /\ ~rlResp'.next
                  /\ rlResp'.retryAfter = CeilDiv(windowEnd[ip] - now, 1000)
                  /\ rlResp'.retryAfter >= 0
                  /\ rateLimits'[ip] = rateLimits[ip]
                  /\ admitted'[ip] = admitted[ip]
             /\ inWindow /\ admitted[ip] < RateLimitMax =>
                  /\ rlResp'.next
                  /\ admitted'[ip] = admitted[ip] + 1
                  /\ windowEnd'[ip] = windowEnd[ip]
             /\ ~inWindow =>
                  /\ rlResp'.next
                  /\ rateLimits'[ip] = [count |-> 1, reset |-> now + WindowMs]
                  /\ admitted'[ip] = 1]_vars

\* A client that used up its window was answered 429 at the window's reset
\* time, while the other client's window was still counting.
C34_Witness ==
  /\ rlResp.status = 429
  /\ rlResp.ip = "ip1"
  /\ rlResp.retryAfter = 0
  /\ admitted["ip1"] = RateLimitMax
  /\ "ip2" \in DOMAIN rateLimits
  /\ rateLimits["ip2"].count = 1


(* ------------------------ the /mcp JSON-RPC routes -------------------- *)

\* The ids /mcp requests carry: numbers, 0 among them, and a string.
RequestIds == {NumId(0), NumId(7), StrId("a")}

\* JavaScript's `x || d` on an id: 0, "" and undefined are falsy.
Falsy(id) ==
  \/ id.t = "undefined"
  \/ id.t = "number" /\ id.n = 0
  \/ id.t = "string" /\ id.s = ""

OrDefault(id, d) == IF Falsy(id) THEN StrId(d) ELSE id

\* MCPProtocol.handleError(error, requestId)
handleError(message, requestId) ==
  [status |-> 500, id |-> OrDefault(requestId, "unknown"), kind |-> "error",
   message |-> message]

\* A route's answer: `c.json({jsonrpc, id: body.id || d, result})` when the
\* MCPServer call returned, `c.json(handleError(error, d), 500)` from the
\* catch block when it threw.
RouteResponse(id, d, r) ==
  IF r.threw # ""
    THEN handleError(r.threw, StrId(d))
    ELSE [status |-> 200, id |-> OrDefault(id, d), kind |-> "result",
          message |-> ""]

\* What a route leaves alone.
rpcFrame ==
  <<breakerVars, callVars, histVars, chatAll, retryVars, parseVars, wsVars,
    sandboxVars, runsVars, rateVars, plainVars, readVars, toolVars, mcpTools,
    mcpResources,
    observed, lastRegistered, lastResources>>

\* POST /mcp/initialize
RpcInitialize(id, c) ==
  /\ connections' = initializeConnection(connections, c)
  /\ mcpResp' = Returned("initialize", c)
  /\ initialized' = initialized \cup {c}
  /\ rpcReq' = [method |-> "initialize", id |-> id]
  /\ rpcResp' = RouteResponse(id, "init", mcpResp')
  /\ UNCHANGED rpcFrame

\* POST /mcp/tools/list
RpcToolsList(id, c) ==
  /\ connections' = ensureConnection(connections, c)
  /\ mcpResp' = handleToolsList(connections', c)
  /\ rpcReq' = [method |-> "tools/list", id |-> id]
  /\ rpcResp' = RouteResponse(id, "tools_list", mcpResp')
  /\ UNCHANGED initialized
  /\ UNCHANGED rpcFrame

\* POST /mcp/tools/call
RpcToolsCall(id, c, name, args) ==
  /\ connections' = ensureConnection(connections, c)
  /\ \E ok \in RunnerOutcomes(name, args) :
       mcpResp' = handleToolCall(connections', c, name, args, ok)
  /\ rpcReq' = [method |-> "tools/call", id |-> id]
  /\ rpcResp' = RouteResponse(id, "tools_call", mcpResp')
  /\ UNCHANGED initialized
  /\ UNCHANGED rpcFrame

\* POST /mcp/resources/list
RpcResourcesList(id, c) ==
  /\ connections' = ensureConnection(connections, c)
  /\ mcpResp' = handleResourcesList(connections', c)
  /\ rpcReq' = [method |-> "resources/list", id |-> id]
  /\ rpcResp' = RouteResponse(id, "resources_list", mcpResp')
  /\ UNCHANGED initialized
  /\ UNCHANGED rpcFrame

InitRpc ==
  /\ InitBase(LMThreshold)
  /\ InitRetryOff
  /\ InitParseOff
  /\ InitWsOff
  /\ InitSandboxOff
  /\ InitRunsOff
  /\ InitLateOff
  /\ InitServed

NextRpc ==
  \/ \E id \in RequestIds, c \in ConnIds : RpcInitialize(id, c)
  \/ \E id \in RequestIds, c \in ConnIds : RpcToolsList(id, c)
  \/ \E id \in RequestIds, c \in ConnIds, name \in {"listFiles", "nope"},
        args \in {Args(PGood), Args(PEmpty)} : RpcToolsCall(id, c, name, args)
  \/ \E id \in RequestIds, c \in ConnIds : RpcResourcesList(id, c)

SpecRpc == InitRpc /\ [][NextRpc]_vars

\* C35: every JSON-RPC response of an MCP endpoint carries the id of the
\* request it answers, whether it reports a result or an error.
C35_ResponseCarriesRequestId ==
  rpcResp.kind # "none" => rpcResp.id = rpcReq.id


(* ------------------- the breaker's state and its count ---------------- *)

\* A CircuitBreaker with the smallest threshold or lmStudioCircuitBreaker's,
\* under concurrent execute() calls.
InitAny == \E th \in {1, LMThreshold} : InitBreaker(th)

SpecAny == InitAny /\ [][Next]_vars

\* C36: in every reachable state of a CircuitBreaker with threshold >= 1,
\* under any interleaving of concurrent calls, state = CLOSED if and only if
\* failures < threshold: OPEN and HALF_OPEN imply failures >= threshold.
C36_ClosedIffBelowThreshold ==
  /\ threshold >= 1
  /\ state \in {"CLOSED", "OPEN", "HALF_OPEN"}
  /\ state = "CLOSED" <=> failures < threshold

\* While one call probes the HALF_OPEN breaker, a call admitted before the
\* breaker opened is still in flight and failures exceeds the threshold.
C36_Witness ==
  /\ state = "HALF_OPEN"
  /\ failures > threshold
  /\ \E p \in Procs : cpc[p] = "fetch"


(* ------------- failures per execute() call, not per attempt ----------- *)

\* In this step call p invokes safeFetch: withRetry's first attempt inside
\* execute(), or the attempt after a backoff.
AttemptStarts(p) == cpc'[p] = "fetch" /\ cpc[p] # "fetch"

\* In this step call p ends with its whole withRetry sequence failed.
CallFails(p) ==
  /\ cpc[p] = "fetch"
  /\ cpc'[p] = "returned"
  /\ res'[p].kind = "RetryError"

\* Network attempts made by the calls among 1..n that are inside withRetry.
RECURSIVE InFlightOps(_)
InFlightOps(n) ==
  IF n = 0 THEN 0
  ELSE (IF cpc[n] \in {"fetch", "backoff"} THEN nOps[n] ELSE 0)
         + InFlightOps(n - 1)

\* Network attempts made since the last successful call: those of the
\* execute() calls that failed since, and those of the call in flight.
AttemptsSinceSuccess ==
  consec * (lmStudioRetryOptions.maxRetries + 1) + InFlightOps(NumProcs)

\* C37: with requests served one at a time, the upstream breaker records one
\* failure per execute() call whose whole withRetry sequence failed, after
\* maxRetries + 1 network attempts, and none per failed attempt; the breaker
\* opens after exactly threshold * (maxRetries + 1) attempts that no success
\* interrupted (12 with threshold 3 and 3 retries), and no network attempt
\* starts while it is OPEN and the cooldown has not elapsed.
C37_OneFailurePerCall ==
  /\ [][\A p \in Procs : CallFails(p) =>
          /\ nOps[p] = lmStudioRetryOptions.maxRetries + 1
          /\ failures' = failures + 1
          /\ consec' = consec + 1]_vars
  /\ [][failures' > failures => \E p \in Procs : CallFails(p)]_vars
  /\ [][(state = "CLOSED" /\ state' = "OPEN") =>
          /\ AttemptsSinceSuccess' =
               threshold * (lmStudioRetryOptions.maxRetries + 1)
          /\ threshold = LMThreshold => AttemptsSinceSuccess' = 12]_vars
  /\ [][\A p \in Procs : AttemptStarts(p) =>
          ~(state = "OPEN" /\ ~CooldownElapsed(now, lastFailureTime))]_vars

\* lmStudioCircuitBreaker has just opened: three calls failed in a row, the
\* last after its fourth attempt, twelve attempts in all.
C37_Witness ==
  /\ threshold = LMThreshold
  /\ state = "OPEN"
  /\ failures = LMThreshold
  /\ consec = LMThreshold
  /\ AttemptsSinceSuccess = 12
  /\ \E p \in Procs : res[p].kind = "RetryError" /\ nOps[p] = 4


(* -------------------- POST /chat with stream = false ------------------ *)

\* The contents the model may answer with: nothing, narration, one tool
\* call, and several calls among which an unknown tool, a tool that is an
\* inherited member, a failing execution and a repeated call.
PlainContents ==
  { <<>>, <<TXT>>,
    ObjText("listFiles", PGood),
    ObjText("nope", PGood) \o <<TXT>> \o ObjText("createDirectory", PGood)
      \o ObjText("listFiles", PGood),
    ObjText("toString", PGood) \o ObjText("listFiles", PGood),
    ObjText("createDirectory", PEmpty) \o ObjText("listFiles", PGood),
    ObjText("listFiles", PGood) \o ObjText("listFiles", PGood) }

\* An entry of `results`, with the call it reports.
PlainResult(kind, inv) == [kind |-> kind, inv |-> inv]

\* What the request's steps leave alone besides the breaker and its call.
plainRest ==
  <<chatAll, retryVars, parseVars, wsVars, toolVars, mcpVars, mcpHist,
    sandboxVars, runsVars, rateVars, rpcVars, readVars>>

\* The handler runs up to the first await of lmStudioCircuitBreaker.execute().
PlainBegin ==
  /\ npc = "start"
  /\ ExecuteEntry(ChatProc)
  /\ npc' = "upstream"
  /\ nExecutes' = nExecutes + 1
  /\ UNCHANGED <<nContent, nQueue, nCur, nAttempt, nResults, nResp>>
  /\ UNCHANGED plainRest

\* execute() returned the response and resp.json() resolved: the content is
\* parsed; without content or tool calls the original response is returned.
PlainReply ==
  /\ npc = "upstream"
  /\ cpc[ChatProc] = "returned"
  /\ res[ChatProc].kind = "ok"
  /\ \E content \in PlainContents :
       LET jsonObjects == parseMultipleJSONObjects(content) IN
         /\ nContent' = content
         /\ IF content # <<>> /\ Len(jsonObjects) > 0
              THEN /\ nQueue' = jsonObjects
                   /\ npc' = "loop"
                   /\ nResp' = nResp
              ELSE /\ nQueue' = <<>>
                   /\ npc' = "done"
                   /\ nResp' = 200
  /\ cpc' = [cpc EXCEPT ![ChatProc] = "idle"]
  /\ UNCHANGED <<attempt, res, nOps, waits>>
  /\ UNCHANGED <<nCur, nAttempt, nResults, nExecutes>>
  /\ UNCHANGED <<breakerVars, histVars>>
  /\ UNCHANGED plainRest

\* execute() threw, or resp.json() rejected: the catch block answers 503.
PlainFail ==
  /\ npc = "upstream"
  /\ cpc[ChatProc] = "returned"
  /\ npc' = "done"
  /\ nResp' = 503
  /\ cpc' = [cpc EXCEPT ![ChatProc] = "idle"]
  /\ UNCHANGED <<attempt, res, nOps, waits>>
  /\ UNCHANGED <<nContent, nQueue, nCur, nAttempt, nResults, nExecutes>>
  /\ UNCHANGED <<breakerVars, histVars>>
  /\ UNCHANGED plainRest

\* for (const json of jsonObjects): tools[json.action] is undefined.
PlainUnknown ==
  /\ npc = "loop"
  /\ nQueue # <<>>
  /\ ~ToolLookup(Head(nQueue).action)
  /\ nResults' = Append(nResults, PlainResult("unknown", Head(nQueue)))
  /\ nQueue' = Tail(nQueue)
  /\ UNCHANGED <<npc, nContent, nCur, nAttempt, nExecutes, nResp>>
  /\ UNCHANGED <<breakerVars, callVars, histVars>>
  /\ UNCHANGED plainRest

\* tools[json.action] is found: withRetry invokes tool.run(json.params).
PlainToolStart ==
  /\ npc = "loop"
  /\ nQueue # <<>>
  /\ ToolLookup(Head(nQueue).action)
  /\ nCur' = Head(nQueue)
  /\ nQueue' = Tail(nQueue)
  /\ nAttempt' = 1
  /\ npc' = "tool"
  /\ UNCHANGED <<nContent, nResults, nExecutes, nResp>>
  /\ UNCHANGED <<breakerVars, callVars, histVars>>
  /\ UNCHANGED plainRest

\* tool.run() resolves: the result is pushed and the loop goes on.
PlainToolOk ==
  /\ npc = "tool"
  /\ ~RunMustThrow(nCur)
  /\ nResults' = Append(nResults, PlainResult("executed", nCur))
  /\ npc' = "loop"
  /\ UNCHANGED <<nContent, nQueue, nCur, nAttempt, nExecutes, nResp>>
  /\ UNCHANGED <<breakerVars, callVars, histVars>>
  /\ UNCHANGED plainRest

\* tool.run() rejects and retries remain: withRetry waits.
PlainToolFailRetry ==
  /\ npc = "tool"
  /\ RunMayThrow(nCur.action)
  /\ ~RetriesExhausted(nAttempt, toolRetryOptions)
  /\ npc' = "toolwait"
  /\ UNCHANGED <<nContent, nQueue, nCur, nAttempt, nResults, nExecutes, nResp>>
  /\ UNCHANGED <<breakerVars, callVars, histVars>>
  /\ UNCHANGED plainRest

\* The backoff timer fires: withRetry invokes tool.run() again.
PlainToolBackoffDone ==
  /\ npc = "toolwait"
  /\ npc' = "tool"
  /\ nAttempt' = nAttempt + 1
  /\ UNCHANGED <<nContent, nQueue, nCur, nResults, nExecutes, nResp>>
  /\ UNCHANGED <<breakerVars, callVars, histVars>>
  /\ UNCHANGED plainRest

\* tool.run() rejects on the last attempt: the inner catch pushes the
\* failure and the loop goes on.
PlainToolFailFinalMutAbort ==
  /\ npc = "tool"
  /\ RunMayThrow(nCur.action)
  /\ RetriesExhausted(nAttempt, toolRetryOptions)
  /\ npc' = "done"
  /\ nResp' = 503
  /\ UNCHANGED <<nContent, nQueue, nCur, nAttempt, nResults, nExecutes>>
  /\ UNCHANGED <<breakerVars, callVars, histVars>>
  /\ UNCHANGED plainRest
PlainToolFailFinal ==
  /\ npc = "tool"
  /\ RunMayThrow(nCur.action)
  /\ RetriesExhausted(nAttempt, toolRetryOptions)
  /\ nResults' = Append(nResults, PlainResult("failed", nCur))
  /\ npc' = "loop"
  /\ UNCHANGED <<nContent, nQueue, nCur, nAttempt, nExecutes, nResp>>
  /\ UNCHANGED <<breakerVars, callVars, histVars>>
  /\ UNCHANGED plainRest

\* The for loop is over: the joined results are returned.
PlainFinish ==
  /\ npc = "loop"
  /\ nQueue = <<>>
  /\ npc' = "done"
  /\ nResp' = 200
  /\ UNCHANGED <<nContent, nQueue, nCur, nAttempt, nResults, nExecutes>>
  /\ UNCHANGED <<breakerVars, callVars, histVars>>
  /\ UNCHANGED plainRest

\* One POST /chat request with stream = false, lmStudioCircuitBreaker CLOSED
\* or OPEN since a cooldown or less.
InitPlain ==
  /\ threshold = LMThreshold
  /\ lastFailureTime = 0
  /\ \/ state = "CLOSED" /\ failures = 0 /\ openedAt = -1 /\ now = 0
     \/ /\ state = "OPEN" /\ failures = LMThreshold /\ openedAt = 0
        /\ now \in {Timeout, Timeout + TickMs}
  /\ InitCalls
  /\ InitChatVars("off")
  /\ NoChatArgs
  /\ InitRetryOff
  /\ InitParseOff
  /\ InitWsOff
  /\ InitServed
  /\ InitSandboxOff
  /\ InitRunsOff
  /\ InitRateOff
  /\ InitRpcOff
  /\ InitReadOff
  /\ npc = "start"
  /\ nContent = <<>>
  /\ nQueue = <<>>
  /\ nCur = [action |-> "", params |-> {}]
  /\ nAttempt = 0
  /\ nResults = <<>>
  /\ nExecutes = 0
  /\ nResp = 0

NextPlain ==
  \/ PlainBegin
  \/ FetchOk(ChatProc)
  \/ FetchFailRetry(ChatProc)
  \/ BackoffDone(ChatProc)
  \/ FetchFailFinal(ChatProc)
  \/ PlainReply
  \/ PlainFail
  \/ PlainUnknown
  \/ PlainToolStart
  \/ PlainToolOk
  \/ PlainToolFailRetry
  \/ PlainToolBackoffDone
  \/ PlainToolFailFinal
  \/ PlainFinish

SpecPlain == InitPlain /\ [][NextPlain]_vars

PFX1 == [k |-> "pfx1"]
PFX2 == [k |-> "pfx2"]
DN1 == [k |-> "dn1"]
DN2 == [k |-> "dn2"]
NL == [k |-> "nl"]
CR == [k |-> "cr"]
U1 == [k |-> "u1"]
U2 == [k |-> "u2"]
UCH == [k |-> "uch"]
FFFD == [k |-> "fffd"]
JOPEN == [k |-> "jopen"]
JCLOSE == [k |-> "jclose"]
Q(tok) == [k |-> "q", tok |-> tok]

\* decoder.decode(value, { stream: true }): a character split between two
\* reads is held back; a byte that cannot continue or start a character
\* decodes to U+FFFD.
RECURSIVE DecodeFrom(_, _, _, _)
DecodeFrom(bytes, i, held, out) ==
  IF i > Len(bytes) THEN [text |-> out, held |-> held]
  ELSE IF held
    THEN IF bytes[i] = U2
           THEN DecodeFrom(bytes, i + 1, FALSE, Append(out, UCH))
           ELSE DecodeFrom(bytes, i, FALSE, Append(out, FFFD))
  ELSE IF bytes[i] = U1 THEN DecodeFrom(bytes, i + 1, TRUE, out)
  ELSE IF bytes[i] = U2 THEN DecodeFrom(bytes, i + 1, FALSE, Append(out, FFFD))
  ELSE DecodeFrom(bytes, i + 1, FALSE, Append(out, bytes[i]))

Decode(held, bytes) == DecodeFrom(bytes, 1, held, <<>>)

\* lines = buffer.split("\n"); buffer = lines.pop() || "".
RECURSIVE SplitFrom(_, _, _, _)
SplitFrom(buf, i, cur, lines) ==
  IF i > Len(buf) THEN [lines |-> lines, rest |-> cur]
  ELSE IF buf[i] = NL THEN SplitFrom(buf, i + 1, <<>>, Append(lines, cur))
  ELSE SplitFrom(buf, i + 1, Append(cur, buf[i]), lines)

SplitLinesMutDropRest(buf) ==
  [lines |-> SplitFrom(buf, 1, <<>>, <<>>).lines, rest |-> <<>>]
SplitLines(buf) == SplitFrom(buf, 1, <<>>, <<>>)

\* String.prototype.trim() on the payload.
RECURSIVE Trim(_)
Trim(t) ==
  IF t = <<>> THEN t
  ELSE IF Head(t) = CR THEN Trim(Tail(t))
  ELSE IF t[Len(t)] = CR THEN Trim(SubSeq(t, 1, Len(t) - 1))
  ELSE t

\* The character of the content string a JSON character stands for.
Unquote(c) == IF c = UCH THEN TXT ELSE c.tok

\* What the loop body makes of a line: a "data: " line with payload [DONE],
\* with a JSON payload carrying content, or anything else (no "data: ", an
\* empty payload, a payload JSON.parse throws on), which yields nothing.
LineFrame(line) ==
  IF Len(line) >= 2 /\ line[1] = PFX1 /\ line[2] = PFX2
    THEN LET payload == Trim(SubSeq(line, 3, Len(line))) IN
           IF payload = <<DN1, DN2>> THEN DoneFrame
           ELSE IF /\ Len(payload) >= 2
                   /\ payload[1] = JOPEN
                   /\ payload[Len(payload)] = JCLOSE
                   /\ \A j \in 2..(Len(payload) - 1) :
                        payload[j].k \in {"q", "uch"}
             THEN Delta([j \in 1..(Len(payload) - 2) |-> Unquote(payload[j + 1])])
           ELSE JunkFrame
    ELSE JunkFrame

\* for (const line of lines): the events yielded and the content buffer left.
RECURSIVE EachLine(_, _, _)
EachLine(lines, cb, yielded) ==
  IF lines = <<>> THEN [events |-> yielded, buffer |-> cb]
  ELSE LET r == OnFrame(LineFrame(Head(lines)), cb) IN
         EachLine(Tail(lines), r.buffer, yielded \o r.events)

\* One turn of the while loop on the value of a read, from the loop's state.
ReadState(held, buffer, content, yielded) ==
  [held |-> held, buffer |-> buffer, content |-> content, events |-> yielded]

OnRead(st, value) ==
  LET dec == Decode(st.held, value)
      split == SplitLines(st.buffer \o dec.text)
      r == EachLine(split.lines, st.content, <<>>)
  IN ReadState(dec.held, split.rest, r.buffer, st.events \o r.events)

\* The lines an upstream body is made of: two deltas that make a tool call
\* together, a delta of one two-byte character ended by \r\n, [DONE], and
\* the blank line that separates SSE events.
BodyLines ==
  { <<PFX1, PFX2, JOPEN, Q(LB), Q(ACT("listFiles")), JCLOSE, NL>>,
    <<PFX1, PFX2, JOPEN, Q(LB), Q(PAR(PGood)), Q(RB), Q(RB), JCLOSE, NL>>,
    <<PFX1, PFX2, JOPEN, U1, U2, JCLOSE, CR, NL>>,
    <<PFX1, PFX2, DN1, DN2, NL>>,
    <<NL>> }

\* Bodies of at most MaxLines newline-terminated lines.
MaxLines == 3

RECURSIVE Bodies(_)
Bodies(n) ==
  IF n = 0 THEN {<<>>}
  ELSE LET shorter == Bodies(n - 1) IN
         shorter \cup {b \o l : b \in shorter, l \in BodyLines}

InitReads ==
  /\ InitBase(LMThreshold)
  /\ InitRetryOff
  /\ InitParseOff
  /\ InitWsOff
  /\ InitServed
  /\ InitSandboxOff
  /\ InitRunsOff
  /\ InitRateOff
  /\ InitRpcOff
  /\ InitPlainOff
  /\ rdpc = "read"
  /\ rdBytes \in Bodies(MaxLines)
  /\ rdPos = 0
  /\ rdDecoder = FALSE
  /\ rdBuffer = <<>>
  /\ rdContent = <<>>
  /\ rdEvents = <<>>

readRest ==
  <<breakerVars, callVars, histVars, chatAll, retryVars, parseVars, wsVars,
    toolVars, mcpVars, mcpHist, sandboxVars, runsVars, rateVars, rpcVars,
    plainVars>>

\* reader.read() resolves with the next n bytes of the body.
ReadValue(n) ==
  /\ rdpc = "read"
  /\ rdPos + n <= Len(rdBytes)
  /\ LET st == OnRead(ReadState(rdDecoder, rdBuffer, rdContent, rdEvents),
                      SubSeq(rdBytes, rdPos + 1, rdPos + n))
     IN /\ rdDecoder' = st.held
        /\ rdBuffer' = st.buffer
        /\ rdContent' = st.content
        /\ rdEvents' = st.events
  /\ rdPos' = rdPos + n
  /\ UNCHANGED <<rdpc, rdBytes>>
  /\ UNCHANGED readRest

\* reader.read() resolves with done: the loop breaks and the lock is released.
ReadDone ==
  /\ rdpc = "read"
  /\ rdPos = Len(rdBytes)
  /\ rdpc' = "done"
  /\ UNCHANGED <<rdBytes, rdPos, rdDecoder, rdBuffer, rdContent, rdEvents>>
  /\ UNCHANGED readRest

NextReads ==
  \/ \E n \in 1..Len(rdBytes) : ReadValue(n)
  \/ ReadDone

SpecReads == InitReads /\ [][NextReads]_vars

\* C39: however a body of newline-terminated lines is split into reads,
\* streamLMStudio has yielded, after any number of reads, the events it
\* yields when the bytes read so far arrive in a single read, in the same
\* order; at the end of the body these are the events of the whole body.
C39_EventsIndependentOfReads ==
  LET once == OnRead(ReadState(FALSE, <<>>, <<>>, <<>>),
                     SubSeq(rdBytes, 1, rdPos))
  IN rdpc \in {"read", "done"} =>
       /\ rdEvents = once.events
       /\ rdContent = once.content
       /\ rdBuffer = once.buffer
       /\ rdDecoder = once.held
       /\ rdpc = "done" => rdPos = Len(rdBytes) /\ rdBuffer = <<>>

\* A read ended inside "[DONE]", after the reads before it had delivered a
\* tool call in two deltas, whose action event was yielded.
C39_Witness ==
  /\ rdpc = "read"
  /\ rdBuffer = <<PFX1, PFX2, DN1>>
  /\ rdPos < Len(rdBytes)
  /\ rdEvents = <<ActionEvent([action |-> "listFiles", params |-> PGood])>>

====
